---------------------------- MODULE Spec2Model ----------------------------
(***************************************************************************)
(* Model of the alarm engine of core/alarms/alarm_system.py (AlarmEngine): *)
(* threshold classification, the delay timers, the active-alarm table, the  *)
(* history, acknowledgment and the statistics.                              *)
(*                                                                          *)
(* Numbers: tag values, thresholds and the clock are floats in the source;  *)
(* the model uses integers (seconds for the clock).  An AlarmEvent object   *)
(* is shared by alarm_history and active_alarms in the source; the model    *)
(* keeps the objects in alarm_history and active_alarms holds the index of  *)
(* the object (a reference).                                                *)
(***************************************************************************)
EXTENDS Integers, Sequences, FiniteSets, TLC

VARIABLES
    now,             \* the clock read by time.time() / datetime.now()
    alarms_config,   \* AlarmEngine.alarms_config : tag -> AlarmConfig
    current_states,  \* AlarmEngine.current_states : tag -> AlarmState
    active_alarms,   \* AlarmEngine.active_alarms : dict, in insertion order
    alarm_history,   \* AlarmEngine.alarm_history : list of AlarmEvent
    alarm_timers,    \* AlarmEngine.alarm_timers : timer key -> first seen
    alarm_callbacks, \* AlarmEngine.alarm_callbacks : list of subscribers
    stats,           \* AlarmEngine.stats
    notified,        \* subscriber -> the events it was called with, in order
    seen,            \* observer: tag -> level -> first time the level was
                     \* classified since the tag's confirmed level last changed
    last,            \* the most recent call and its arguments
    ret,             \* what the most recent call returned
    threads,         \* thread -> the frame of the call it is executing
    base             \* the engine's fields when no call was in progress

vars == <<now, alarms_config, current_states, active_alarms, alarm_history,
          alarm_timers, alarm_callbacks, stats, notified, seen, last, ret,
          threads, base>>

engine == <<alarms_config, current_states, active_alarms, alarm_history,
            alarm_timers, alarm_callbacks, stats, notified>>

\* The calls in progress; the single-threaded specifications have none.
concurrent == <<threads, base>>

----------------------------------------------------------------------------
\* Bounds of the model.

MaxTime == 3
MaxHistory == 3
MaxThreshold == 2

----------------------------------------------------------------------------
\* Optional[...] values: None, or a one-element tuple holding the value.

None == <<>>
Some(x) == <<x>>
IsSet(o) == o # None
Val(o) == o[1]

\* class AlarmState
NORMAL == "NORMAL"
WARNING == "WARNING"
CRITICAL == "CRITICAL"
EMERGENCY == "EMERGENCY"
AlarmState == {NORMAL, WARNING, CRITICAL, EMERGENCY}

\* class AlarmPriority
LOW == 1
MEDIUM == 2
HIGH == 3
URGENT == 4
AlarmPriority == {LOW, MEDIUM, HIGH, URGENT}

\* The fields a message template may reference (the keyword arguments of
\* message_template.format in _create_alarm_event).
FormatFields == {"tag_name", "description", "value", "limit"}

\* dataclass AlarmConfig, with its defaults; a template is the sequence of
\* the field names it references.
AlarmConfig(tag, descr, wl, wh, cl, ch, el, eh) ==
    [tag_name |-> tag, description |-> descr,
     warning_low |-> wl, warning_high |-> wh,
     critical_low |-> cl, critical_high |-> ch,
     emergency_low |-> el, emergency_high |-> eh,
     enabled |-> TRUE, deadband |-> 1, delay_seconds |-> 2,
     auto_acknowledge |-> FALSE, priority |-> MEDIUM,
     message_template |-> <<"tag_name", "description", "value">>]

\* create_default_config: the entries of the default set the model uses.
DefaultEngineTemp1 ==
    [AlarmConfig("engine_temp_1", "Temperatura Motor 1",
                 None, Some(90), None, Some(110), None, Some(130))
     EXCEPT !.priority = HIGH,
            !.message_template = <<"description", "value", "limit">>]

DefaultEngineTemp2 ==
    [AlarmConfig("engine_temp_2", "Temperatura Motor 2",
                 None, Some(90), None, Some(110), None, Some(130))
     EXCEPT !.priority = HIGH]

DefaultHydraulicPressure ==
    [AlarmConfig("hydraulic_pressure", "Presion Hidraulica",
                 Some(185), Some(215), Some(175), Some(225), Some(160), None)
     EXCEPT !.priority = URGENT, !.delay_seconds = 1]

DefaultFuelPressure ==
    [AlarmConfig("fuel_pressure", "Presion Combustible",
                 Some(47), None, Some(45), None, Some(40), None)
     EXCEPT !.priority = HIGH]

DefaultCabinTemp ==
    [AlarmConfig("cabin_temp", "Temperatura Cabina",
                 Some(16), Some(28), Some(10), Some(35), None, None)
     EXCEPT !.priority = LOW, !.delay_seconds = 10]

\* load_config: the configuration files the engine is constructed over, each
\* a mapping from tag to AlarmConfig.  They hold entries of the default set;
\* one file disables cabin_temp, one sets auto_acknowledge on
\* hydraulic_pressure.
EngineFile ==
    [t \in {"engine_temp_1", "cabin_temp"} |->
        IF t = "engine_temp_1"
        THEN DefaultEngineTemp1
        ELSE [DefaultCabinTemp EXCEPT !.enabled = FALSE]]

HydraulicFile ==
    [t \in {"hydraulic_pressure"} |-> DefaultHydraulicPressure]

AutoAckFile ==
    [t \in {"hydraulic_pressure"} |->
        [DefaultHydraulicPressure EXCEPT !.auto_acknowledge = TRUE]]

PairFile ==
    [t \in {"engine_temp_2", "fuel_pressure"} |->
        IF t = "engine_temp_2" THEN DefaultEngineTemp2 ELSE DefaultFuelPressure]

ConfigFiles == {EngineFile, HydraulicFile, AutoAckFile, PairFile}

\* The tags the collector samples: the configured ones and one that has no
\* configuration; and the values it delivers for each.
SampledTags == DOMAIN alarms_config \cup {"unknown_tag"}

SampleValues(tag) ==
    CASE tag = "engine_temp_1" -> {85, 95, 115}
      [] tag = "engine_temp_2" -> {85, 95}
      [] tag = "hydraulic_pressure" -> {180, 200}
      [] tag = "fuel_pressure" -> {46, 50}
      [] tag = "engine_temp" -> {85, 95}
      [] tag = "oil_temp" -> {85, 95, 115}
      [] OTHER -> {95}

Users == {"OPERATOR", "SUPERVISOR"}

----------------------------------------------------------------------------
\* Python dict operations on active_alarms, a sequence of [key, val] in
\* insertion order.

DictHas(d, k) == \E i \in 1..Len(d) : d[i].key = k
DictGet(d, k) == d[CHOOSE i \in 1..Len(d) : d[i].key = k].val
DictSet(d, k, v) ==
    IF DictHas(d, k)
    THEN [i \in 1..Len(d) |-> IF d[i].key = k THEN [key |-> k, val |-> v] ELSE d[i]]
    ELSE Append(d, [key |-> k, val |-> v])
DictDel(d, k) == SelectSeq(d, LAMBDA e : e.key # k)
DictKeys(d) == {d[i].key : i \in 1..Len(d)}

\* Fault variant of TimerSet: starting a timer cancels the timers pending
\* before it.
TimerSetCancelsPending(timers, k, t) == [x \in {k} |-> t]

\* alarm_timers is a function on the keys present.
TimerSet(timers, k, t) ==
    [x \in DOMAIN timers \cup {k} |-> IF x = k THEN t ELSE timers[x]]

\* Fault variant of TimerDel: the timer is left in place.
TimerDelKeepsTimer(timers, k) == timers

\* del self.alarm_timers[timer_key]
TimerDel(timers, k) == [x \in DOMAIN timers \ {k} |-> timers[x]]

\* Fault variant of the timer key: the level alone.
TimerKeyOfLevel(tag_name, state) == state

\* timer_key = f"{tag_name}_{new_state.value}"
TimerKey(tag_name, state) == tag_name \o "_" \o state

\* What a call returns.
RetNone == [kind |-> "None"]
RetEvent(i) == [kind |-> "event", ref |-> i]
RetBool(b) == [kind |-> "bool", val |-> b]
RetRaise(e) == [kind |-> "raise", exc |-> e]

\* A call: the operation and its arguments, and what it found on entry (the
\* first-seen time under the timer key of evaluate_tag, whether the entry of
\* acknowledge_alarm was acknowledged already).
Call(op, tag, value, user, first_seen, acked) ==
    [op |-> op, tag_name |-> tag, value |-> value, user |-> user,
     first_seen |-> first_seen, was_acknowledged |-> acked]


----------------------------------------------------------------------------
\* Fault variant of _determine_alarm_state: the levels are tested least severe
\* first.
DetermineLeastSevereFirst(config, value) ==
    IF IsSet(config.warning_high) /\ value >= Val(config.warning_high)
    THEN WARNING
    ELSE IF IsSet(config.warning_low) /\ value <= Val(config.warning_low)
    THEN WARNING
    ELSE IF IsSet(config.critical_high) /\ value >= Val(config.critical_high)
    THEN CRITICAL
    ELSE IF IsSet(config.critical_low) /\ value <= Val(config.critical_low)
    THEN CRITICAL
    ELSE IF IsSet(config.emergency_high) /\ value >= Val(config.emergency_high)
    THEN EMERGENCY
    ELSE IF IsSet(config.emergency_low) /\ value <= Val(config.emergency_low)
    THEN EMERGENCY
    ELSE NORMAL

\* Fault variant of _determine_alarm_state: the comparisons are strict.
DetermineExclusiveBounds(config, value) ==
    IF IsSet(config.emergency_high) /\ value > Val(config.emergency_high)
    THEN EMERGENCY
    ELSE IF IsSet(config.emergency_low) /\ value < Val(config.emergency_low)
    THEN EMERGENCY
    ELSE IF IsSet(config.critical_high) /\ value > Val(config.critical_high)
    THEN CRITICAL
    ELSE IF IsSet(config.critical_low) /\ value < Val(config.critical_low)
    THEN CRITICAL
    ELSE IF IsSet(config.warning_high) /\ value > Val(config.warning_high)
    THEN WARNING
    ELSE IF IsSet(config.warning_low) /\ value < Val(config.warning_low)
    THEN WARNING
    ELSE NORMAL

\* AlarmEngine._determine_alarm_state
_determine_alarm_state(config, value) ==
    IF IsSet(config.emergency_high) /\ value >= Val(config.emergency_high)
    THEN EMERGENCY
    ELSE IF IsSet(config.emergency_low) /\ value <= Val(config.emergency_low)
    THEN EMERGENCY
    ELSE IF IsSet(config.critical_high) /\ value >= Val(config.critical_high)
    THEN CRITICAL
    ELSE IF IsSet(config.critical_low) /\ value <= Val(config.critical_low)
    THEN CRITICAL
    ELSE IF IsSet(config.warning_high) /\ value >= Val(config.warning_high)
    THEN WARNING
    ELSE IF IsSet(config.warning_low) /\ value <= Val(config.warning_low)
    THEN WARNING
    ELSE NORMAL

\* AlarmEngine._get_active_limit
_get_active_limit(config, state) ==
    IF state = WARNING /\ IsSet(config.warning_high)
    THEN ToString(Val(config.warning_high))
    ELSE IF state = WARNING /\ IsSet(config.warning_low)
    THEN ToString(Val(config.warning_low))
    ELSE IF state = CRITICAL /\ IsSet(config.critical_high)
    THEN ToString(Val(config.critical_high))
    ELSE IF state = CRITICAL /\ IsSet(config.critical_low)
    THEN ToString(Val(config.critical_low))
    ELSE IF state = EMERGENCY /\ IsSet(config.emergency_high)
    THEN ToString(Val(config.emergency_high))
    ELSE IF state = EMERGENCY /\ IsSet(config.emergency_low)
    THEN ToString(Val(config.emergency_low))
    ELSE "N/A"

\* str.format on a message template: KeyError when the template references
\* a field that is not among the keyword arguments, else the rendered fields.
Raised == [raised |-> "KeyError"]

Format(template, args) ==
    IF \E i \in 1..Len(template) : template[i] \notin DOMAIN args
    THEN Raised
    ELSE [i \in 1..Len(template) |-> args[template[i]]]

\* dataclass AlarmEvent, as _create_alarm_event constructs it: the
\* acknowledgment fields take their defaults.
AlarmEvent(id, tag_name, timestamp, state, previous_state, value, message, priority, auto_cleared) ==
    [id |-> id,
     tag_name |-> tag_name,
     timestamp |-> timestamp,
     state |-> state,
     previous_state |-> previous_state,
     value |-> value,
     message |-> message,
     priority |-> priority,
     acknowledged |-> FALSE,
     ack_timestamp |-> None,
     ack_user |-> None,
     auto_cleared |-> auto_cleared]

\* event_id = f"{config.tag_name}_{int(time.time() * 1000)}"
EventId(config) == config.tag_name \o "_" \o ToString(now * 1000)

\* The message of _create_alarm_event: the template rendered with tag_name,
\* description, value and limit.
RenderMessage(config, value, new_state) ==
    Format(config.message_template,
           [f \in FormatFields |->
               CASE f = "tag_name" -> config.tag_name
                 [] f = "description" -> config.description
                 [] f = "value" -> ToString(value)
                 [] f = "limit" -> _get_active_limit(config, new_state)])

\* Fault variant of _create_alarm_event: the candidate level is recorded as
\* the previous level.
CreateWithCandidateAsPrevious(config, value, new_state, previous_state) ==
    LET message == RenderMessage(config, value, new_state)
    IN  IF message = Raised
        THEN Raised
        ELSE AlarmEvent(EventId(config), config.tag_name, now, new_state,
                        new_state, value, message, config.priority,
                        new_state = NORMAL)

\* Fault variant of _create_alarm_event: every event is recorded as a
\* transition from NORMAL.
CreateWithNormalAsPrevious(config, value, new_state, previous_state) ==
    LET message == RenderMessage(config, value, new_state)
    IN  IF message = Raised
        THEN Raised
        ELSE AlarmEvent(EventId(config), config.tag_name, now, new_state,
                        NORMAL, value, message, config.priority,
                        new_state = NORMAL)

\* AlarmEngine._create_alarm_event: the event, or Raised when rendering the
\* message raises.
_create_alarm_event(config, value, new_state, previous_state) ==
    LET message == RenderMessage(config, value, new_state)
    IN  IF message = Raised
        THEN Raised
        ELSE AlarmEvent(EventId(config), config.tag_name, now, new_state,
                        previous_state, value, message, config.priority,
                        new_state = NORMAL)

\* Fault variant of _update_statistics: last_critical is set by an event of
\* any priority.
UpdateStatisticsAnyPriority(event, active, history) ==
    [total_alarms |-> stats.total_alarms + 1,
     active_count |-> Len(active),
     acknowledged_count |->
        Cardinality({i \in 1..Len(active) : history[active[i].val].acknowledged}),
     last_critical |-> Some(event.timestamp)]

\* AlarmEngine._update_statistics, on the table and history as they are when
\* it is called.
_update_statistics(event, active, history) ==
    [total_alarms |-> stats.total_alarms + 1,
     active_count |-> Len(active),
     acknowledged_count |->
        Cardinality({i \in 1..Len(active) : history[active[i].val].acknowledged}),
     last_critical |->
        IF event.priority \in {HIGH, URGENT}
        THEN Some(event.timestamp)
        ELSE stats.last_critical]

\* Fault variant of the auto-acknowledge stamp: an event an operator has
\* acknowledged keeps the operator's acknowledgment.
AutoAcknowledgedUnlessAcknowledged(old_event) ==
    IF old_event.acknowledged
    THEN old_event
    ELSE [old_event EXCEPT !.acknowledged = TRUE,
                           !.ack_timestamp = Some(now),
                           !.ack_user = Some("SYSTEM")]

\* The auto-acknowledge stamp of _process_alarm_event on the old event.
AutoAcknowledged(old_event) ==
    [old_event EXCEPT !.acknowledged = TRUE,
                      !.ack_timestamp = Some(now),
                      !.ack_user = Some("SYSTEM")]

\* A subscriber is any callable; the failing subscribers raise an
\* Exception whenever they are called.
SubscriberRaises(callback) == callback \in {"failing_subscriber", "failing_subscriber_2"}

\* Fault variant of Dispatch: no try/except around the call, so the loop ends
\* at the first subscriber that raises.
RECURSIVE DispatchUncaught(_, _, _)
DispatchUncaught(callbacks, ref, log) ==
    IF callbacks = <<>>
    THEN log
    ELSE IF SubscriberRaises(Head(callbacks))
    THEN [log EXCEPT ![Head(callbacks)] = Append(@, ref)]
    ELSE DispatchUncaught(Tail(callbacks), ref,
                          [log EXCEPT ![Head(callbacks)] = Append(@, ref)])

\* The callback loop of _process_alarm_event: every subscriber of the list is
\* called with the event, in list order; what a subscriber raises is caught.
RECURSIVE Dispatch(_, _, _)
Dispatch(callbacks, ref, log) ==
    IF callbacks = <<>>
    THEN log
    ELSE Dispatch(Tail(callbacks), ref,
                  [log EXCEPT ![Head(callbacks)] = Append(@, ref)])

\* Fault variant of HistoryAfter: the auto-acknowledge stamp lands on the new
\* NORMAL event instead of the old active event.
HistoryAfterAcksNewEvent(event) ==
    LET appended == Append(alarm_history, event)
        tag == event.tag_name
    IN  IF /\ event.state = NORMAL
           /\ DictHas(active_alarms, tag)
           /\ alarms_config[tag].auto_acknowledge
        THEN [appended EXCEPT ![Len(appended)] = AutoAcknowledged(@)]
        ELSE appended

\* Fault variant of HistoryAfter: the newest event is put first.
HistoryAfterNewestFirst(event) ==
    <<event>> \o alarm_history

\* Fault variant of HistoryAfter: the auto-acknowledge stamp is put on the
\* tag's old entry whenever the tag has one, also when it is replaced.
HistoryAfterAcksReplaced(event) ==
    LET appended == Append(alarm_history, event)
        tag == event.tag_name
    IN  IF /\ DictHas(active_alarms, tag)
           /\ alarms_config[tag].auto_acknowledge
        THEN [appended EXCEPT ![DictGet(active_alarms, tag)] = AutoAcknowledged(@)]
        ELSE appended

\* alarm_history after _process_alarm_event: the event is appended and, when
\* the tag returns to NORMAL with auto_acknowledge, the old active event is
\* stamped.
HistoryAfter(event) ==
    LET appended == Append(alarm_history, event)
        tag == event.tag_name
    IN  IF /\ event.state = NORMAL
           /\ DictHas(active_alarms, tag)
           /\ alarms_config[tag].auto_acknowledge
        THEN [appended EXCEPT ![DictGet(active_alarms, tag)] = AutoAcknowledged(@)]
        ELSE appended

\* Fault variant of ActiveAfter: the entry is not deleted on return to NORMAL.
ActiveAfterKeepsEntry(event) ==
    IF event.state # NORMAL
    THEN DictSet(active_alarms, event.tag_name, Len(alarm_history) + 1)
    ELSE active_alarms

\* Fault variant of ActiveAfter: the table is kept as a list, the appended
\* event is added to it and the tag's older entry stays.
ActiveAfterAddsEntry(event) ==
    IF event.state # NORMAL
    THEN Append(active_alarms,
                [key |-> event.tag_name, val |-> Len(alarm_history) + 1])
    ELSE IF DictHas(active_alarms, event.tag_name)
    THEN DictDel(active_alarms, event.tag_name)
    ELSE active_alarms

\* active_alarms after _process_alarm_event: the appended event becomes the
\* tag's entry, or the tag's entry is deleted when the event is NORMAL.
ActiveAfter(event) ==
    IF event.state # NORMAL
    THEN DictSet(active_alarms, event.tag_name, Len(alarm_history) + 1)
    ELSE IF DictHas(active_alarms, event.tag_name)
    THEN DictDel(active_alarms, event.tag_name)
    ELSE active_alarms

\* AlarmEngine._process_alarm_event
_process_alarm_event(event) ==
    /\ alarm_history' = HistoryAfter(event)
    /\ active_alarms' = ActiveAfter(event)
    /\ stats' = _update_statistics(event, active_alarms', alarm_history')
    /\ notified' = Dispatch(alarm_callbacks, Len(alarm_history) + 1, notified)

\* The observer of classifications: the first time each level was classified
\* for the tag since its confirmed level last changed.
Observe(tag_name, new_state) ==
    IF IsSet(seen[tag_name][new_state])
    THEN seen
    ELSE [seen EXCEPT ![tag_name][new_state] = Some(now)]

Forget(tag_name) == [seen EXCEPT ![tag_name] = [l \in AlarmState |-> None]]

\* evaluate_tag returning None with nothing written.
NoEvent ==
    /\ ret' = RetNone
    /\ UNCHANGED <<current_states, active_alarms, alarm_history,
                   alarm_timers, stats, notified, seen>>

\* evaluate_tag once the delay has elapsed: clear the timer, create the event,
\* update the confirmed state, process the event and return it.  When
\* _create_alarm_event raises, the timer is cleared and nothing else is done.
Confirm(config, value, new_state, current_state) ==
    LET tag_name == config.tag_name
        event == _create_alarm_event(config, value, new_state, current_state)
    IN  /\ alarm_timers' = TimerDel(alarm_timers, TimerKey(tag_name, new_state))
        /\ IF event = Raised
           THEN /\ ret' = RetRaise(event.raised)
                /\ seen' = Observe(tag_name, new_state)
                /\ UNCHANGED <<current_states, active_alarms, alarm_history,
                               stats, notified>>
           ELSE /\ current_states' = [current_states EXCEPT ![tag_name] = new_state]
                /\ _process_alarm_event(event)
                /\ ret' = RetEvent(Len(alarm_history'))
                /\ seen' = Forget(tag_name)

\* Fault variant of DelayPending: a timer exactly as old as the delay still
\* counts as pending.
DelayPendingInclusive(config, current_time, first_seen) ==
    current_time - first_seen <= config.delay_seconds

\* The delay test of evaluate_tag: the delay has not elapsed yet.
DelayPending(config, current_time, first_seen) ==
    current_time - first_seen < config.delay_seconds

\* Fault variant of Debounce: a sample that classifies to the confirmed level
\* cancels the pending timers of the tag.
DebounceResetsOnConfirmedLevel(config, value) ==
    LET tag_name == config.tag_name
        current_time == now
        new_state == _determine_alarm_state(config, value)
        current_state == current_states[tag_name]
        timer_key == TimerKey(tag_name, new_state)
        mine == {TimerKey(tag_name, l) : l \in AlarmState}
    IN  IF new_state = current_state
        THEN /\ alarm_timers' = [k \in DOMAIN alarm_timers \ mine |-> alarm_timers[k]]
             /\ ret' = RetNone
             /\ UNCHANGED <<current_states, active_alarms, alarm_history,
                            stats, notified, seen>>
        ELSE IF timer_key \notin DOMAIN alarm_timers
        THEN /\ alarm_timers' = TimerSet(alarm_timers, timer_key, current_time)
             /\ ret' = RetNone
             /\ seen' = Observe(tag_name, new_state)
             /\ UNCHANGED <<current_states, active_alarms, alarm_history,
                            stats, notified>>
        ELSE IF DelayPending(config, current_time, alarm_timers[timer_key])
        THEN /\ ret' = RetNone
             /\ seen' = Observe(tag_name, new_state)
             /\ UNCHANGED <<current_states, active_alarms, alarm_history,
                            alarm_timers, stats, notified>>
        ELSE Confirm(config, value, new_state, current_state)

\* evaluate_tag for a configured, enabled tag: classify, compare with the
\* confirmed state, start or test the delay timer.
\* Fault variant of the debounce: a sample that finds its candidate's timer
\* still pending starts the timer again.
DebounceRestartsPending(config, value) ==
    LET tag_name == config.tag_name
        current_time == now
        new_state == _determine_alarm_state(config, value)
        current_state == current_states[tag_name]
        timer_key == TimerKey(tag_name, new_state)
    IN  IF new_state = current_state
        THEN NoEvent
        ELSE IF timer_key \notin DOMAIN alarm_timers
        THEN /\ alarm_timers' = TimerSet(alarm_timers, timer_key, current_time)
             /\ ret' = RetNone
             /\ seen' = Observe(tag_name, new_state)
             /\ UNCHANGED <<current_states, active_alarms, alarm_history,
                            stats, notified>>
        ELSE IF DelayPending(config, current_time, alarm_timers[timer_key])
        THEN /\ alarm_timers' = TimerSet(alarm_timers, timer_key, current_time)
             /\ ret' = RetNone
             /\ seen' = Observe(tag_name, new_state)
             /\ UNCHANGED <<current_states, active_alarms, alarm_history,
                            stats, notified>>
        ELSE Confirm(config, value, new_state, current_state)

Debounce(config, value) ==
    LET tag_name == config.tag_name
        current_time == now
        new_state == _determine_alarm_state(config, value)
        current_state == current_states[tag_name]
        timer_key == TimerKey(tag_name, new_state)
    IN  IF new_state = current_state
        THEN NoEvent
        ELSE IF timer_key \notin DOMAIN alarm_timers
        THEN /\ alarm_timers' = TimerSet(alarm_timers, timer_key, current_time)
             /\ ret' = RetNone
             /\ seen' = Observe(tag_name, new_state)
             /\ UNCHANGED <<current_states, active_alarms, alarm_history,
                            stats, notified>>
        ELSE IF DelayPending(config, current_time, alarm_timers[timer_key])
        THEN /\ ret' = RetNone
             /\ seen' = Observe(tag_name, new_state)
             /\ UNCHANGED <<current_states, active_alarms, alarm_history,
                            alarm_timers, stats, notified>>
        ELSE Confirm(config, value, new_state, current_state)

\* Fault variant of evaluate_tag: no membership test before the configuration
\* lookup, which then raises KeyError for an unconfigured tag.
EvaluateWithoutLookupGuard(tag_name, value) ==
    IF tag_name \notin DOMAIN alarms_config
    THEN /\ ret' = RetRaise("KeyError")
         /\ UNCHANGED <<current_states, active_alarms, alarm_history,
                        alarm_timers, stats, notified, seen>>
    ELSE IF ~alarms_config[tag_name].enabled
    THEN NoEvent
    ELSE Debounce(alarms_config[tag_name], value)

\* Fault variant of evaluate_tag: the enabled flag of the configuration is not
\* looked at.
EvaluateIgnoresEnabled(tag_name, value) ==
    IF tag_name \notin DOMAIN alarms_config
    THEN NoEvent
    ELSE Debounce(alarms_config[tag_name], value)

\* AlarmEngine.evaluate_tag
evaluate_tag(tag_name, value) ==
    IF tag_name \notin DOMAIN alarms_config
    THEN NoEvent
    ELSE IF ~alarms_config[tag_name].enabled
    THEN NoEvent
    ELSE Debounce(alarms_config[tag_name], value)

\* The first-seen time evaluate_tag finds under its timer key, if it reads it.
TimerFound(tag_name, value) ==
    IF tag_name \in DOMAIN alarms_config /\ alarms_config[tag_name].enabled
    THEN LET new_state == _determine_alarm_state(alarms_config[tag_name], value)
             timer_key == TimerKey(tag_name, new_state)
         IN  IF new_state # current_states[tag_name]
                /\ timer_key \in DOMAIN alarm_timers
             THEN Some(alarm_timers[timer_key])
             ELSE None
    ELSE None

\* Fault variant of the stamp of acknowledge_alarm: the acknowledged event is
\* marked as cleared as well.
AcknowledgedAndCleared(alarm, user) ==
    [alarm EXCEPT !.acknowledged = TRUE,
                  !.ack_timestamp = Some(now),
                  !.ack_user = Some(user),
                  !.auto_cleared = TRUE]

\* The stamp of acknowledge_alarm on the active event.
Acknowledged(alarm, user) ==
    [alarm EXCEPT !.acknowledged = TRUE,
                  !.ack_timestamp = Some(now),
                  !.ack_user = Some(user)]

\* Fault variant of acknowledge_alarm: the tag's latest event of the history
\* is stamped whether or not the tag is active.
AcknowledgeLatestEvent(tag_name, user) ==
    LET mine == {i \in 1..Len(alarm_history) : alarm_history[i].tag_name = tag_name}
    IN  IF mine # {}
        THEN /\ alarm_history' =
                  [alarm_history EXCEPT ![CHOOSE i \in mine : \A j \in mine : j <= i] =
                      Acknowledged(@, user)]
             /\ ret' = RetBool(TRUE)
        ELSE /\ alarm_history' = alarm_history
             /\ ret' = RetBool(FALSE)

\* Fault variant of acknowledge_alarm: an entry that is acknowledged already
\* is refused.
AcknowledgeOnce(tag_name, user) ==
    IF /\ DictHas(active_alarms, tag_name)
       /\ ~alarm_history[DictGet(active_alarms, tag_name)].acknowledged
    THEN /\ alarm_history' =
              [alarm_history EXCEPT ![DictGet(active_alarms, tag_name)] =
                  Acknowledged(@, user)]
         /\ ret' = RetBool(TRUE)
    ELSE /\ alarm_history' = alarm_history
         /\ ret' = RetBool(FALSE)

\* Fault variant of acknowledge_alarm: the acknowledgment is recorded as an
\* event of its own at the end of the history.
AcknowledgeAppendsRecord(tag_name, user) ==
    IF DictHas(active_alarms, tag_name)
    THEN /\ alarm_history' =
              Append(alarm_history,
                     Acknowledged(alarm_history[DictGet(active_alarms, tag_name)], user))
         /\ ret' = RetBool(TRUE)
    ELSE /\ alarm_history' = alarm_history
         /\ ret' = RetBool(FALSE)

\* Fault variant of acknowledge_alarm: every event of the active tag is
\* stamped, not the active entry alone.
AcknowledgeEveryEventOfTag(tag_name, user) ==
    IF DictHas(active_alarms, tag_name)
    THEN /\ alarm_history' =
              [i \in 1..Len(alarm_history) |->
                  IF alarm_history[i].tag_name = tag_name
                  THEN Acknowledged(alarm_history[i], user)
                  ELSE alarm_history[i]]
         /\ ret' = RetBool(TRUE)
    ELSE /\ alarm_history' = alarm_history
         /\ ret' = RetBool(FALSE)

\* AlarmEngine.acknowledge_alarm
acknowledge_alarm(tag_name, user) ==
    IF DictHas(active_alarms, tag_name)
    THEN /\ alarm_history' =
              [alarm_history EXCEPT ![DictGet(active_alarms, tag_name)] =
                  Acknowledged(@, user)]
         /\ ret' = RetBool(TRUE)
    ELSE /\ alarm_history' = alarm_history
         /\ ret' = RetBool(FALSE)

\* Fault variant of Insert: an entry is put before the entries of the same
\* priority, as an unstable sort may do.
RECURSIVE InsertBeforeEqual(_, _, _)
InsertBeforeEqual(sorted, ref, history) ==
    IF sorted = <<>>
    THEN <<ref>>
    ELSE IF history[Head(sorted)].priority > history[ref].priority
    THEN <<Head(sorted)>> \o InsertBeforeEqual(Tail(sorted), ref, history)
    ELSE <<ref>> \o sorted

\* sorted(alarms, key=lambda x: x.priority.value, reverse=True): a stable
\* sort, so entries of equal priority keep the order of the list.  Insert
\* puts an entry behind every entry of the same or a higher priority.
RECURSIVE Insert(_, _, _)
Insert(sorted, ref, history) ==
    IF sorted = <<>>
    THEN <<ref>>
    ELSE IF history[Head(sorted)].priority >= history[ref].priority
    THEN <<Head(sorted)>> \o Insert(Tail(sorted), ref, history)
    ELSE <<ref>> \o sorted

RECURSIVE Sorted(_, _)
Sorted(alarms, history) ==
    IF alarms = <<>>
    THEN <<>>
    ELSE Insert(Sorted(SubSeq(alarms, 1, Len(alarms) - 1), history),
                alarms[Len(alarms)], history)

\* list(self.active_alarms.values()): the entries in insertion order.
Values(active) == [i \in 1..Len(active) |-> active[i].val]

\* AlarmEngine.get_active_alarms on a table and the events it refers to.
ActiveAlarmsOf(active, history) == Sorted(Values(active), history)

\* AlarmEngine.get_active_alarms
get_active_alarms == ActiveAlarmsOf(active_alarms, alarm_history)

RetList(l) == [kind |-> "list", val |-> l]

\* timedelta(hours=hours) in the unit of the clock, the second.
SecondsPerHour == 3600

\* Fault variant of get_alarm_history: an event stamped exactly at the cutoff
\* is left out.
HistoryAfterCutoff(hours) ==
    LET cutoff == now - hours * SecondsPerHour
    IN  SelectSeq([i \in 1..Len(alarm_history) |-> i],
                  LAMBDA i : alarm_history[i].timestamp > cutoff)

\* AlarmEngine.get_alarm_history: the events, as references into the history.
get_alarm_history(hours) ==
    LET cutoff == now - hours * SecondsPerHour
    IN  SelectSeq([i \in 1..Len(alarm_history) |-> i],
                  LAMBDA i : alarm_history[i].timestamp >= cutoff)

\* AlarmEngine.get_statistics
get_statistics ==
    [total_alarms |-> stats.total_alarms,
     active_count |-> stats.active_count,
     acknowledged_count |-> stats.acknowledged_count,
     last_critical |-> stats.last_critical,
     config_count |-> Cardinality(DOMAIN alarms_config),
     history_count |-> Len(alarm_history),
     unacknowledged_count |->
        Cardinality({i \in 1..Len(active_alarms) :
                        ~alarm_history[active_alarms[i].val].acknowledged})]

RetDict(d) == [kind |-> "dict", val |-> d]

----------------------------------------------------------------------------
\* AlarmEngine.__init__: load_config of one of the configuration files; the
\* subscriber of simple_test is registered.
Init ==
    /\ now = 0
    /\ alarms_config \in ConfigFiles
    /\ current_states = [t \in DOMAIN alarms_config |-> NORMAL]
    /\ active_alarms = <<>>
    /\ alarm_history = <<>>
    /\ alarm_timers = <<>>
    /\ alarm_callbacks = <<"alarm_notification">>
    /\ stats = [total_alarms |-> 0, active_count |-> 0,
                acknowledged_count |-> 0, last_critical |-> None]
    /\ notified = [s \in {"alarm_notification"} |-> <<>>]
    /\ seen = [t \in DOMAIN alarms_config |-> [l \in AlarmState |-> None]]
    /\ last = Call("init", "", 0, "", None, FALSE)
    /\ ret = RetNone
    /\ threads = <<>>
    /\ base = <<>>

\* The clock advances.
Tick ==
    /\ now < MaxTime
    /\ now' = now + 1
    /\ last' = Call("tick", "", 0, "", None, FALSE)
    /\ ret' = RetNone
    /\ UNCHANGED <<engine, seen, concurrent>>

\* A collector delivers a sample (process_tag_data calls evaluate_tag).
EvaluateTag ==
    \E tag_name \in SampledTags : \E value \in SampleValues(tag_name) :
        /\ Len(alarm_history) < MaxHistory
        /\ evaluate_tag(tag_name, value)
        /\ last' = Call("evaluate_tag", tag_name, value, "",
                        TimerFound(tag_name, value), FALSE)
        /\ UNCHANGED <<now, alarms_config, alarm_callbacks, concurrent>>

\* An operator acknowledges a tag (acknowledge_selected_alarms calls
\* acknowledge_alarm).
AcknowledgeAlarm ==
    \E tag_name \in SampledTags : \E user \in Users :
        /\ acknowledge_alarm(tag_name, user)
        /\ last' = Call("acknowledge_alarm", tag_name, 0, user, None,
                        /\ DictHas(active_alarms, tag_name)
                        /\ alarm_history[DictGet(active_alarms, tag_name)].acknowledged)
        /\ UNCHANGED <<now, alarms_config, current_states, active_alarms,
                       alarm_timers, alarm_callbacks, stats, notified, seen,
                       concurrent>>

Next == Tick \/ EvaluateTag \/ AcknowledgeAlarm

Spec == Init /\ [][Next]_vars

----------------------------------------------------------------------------
\* The classifier on its own: an engine over one tag whose six thresholds are
\* each unset or a number up to MaxThreshold, in every combination, and a
\* caller of _determine_alarm_state.

Thresholds == {None} \cup {Some(x) : x \in 1..MaxThreshold}

ProbeValues == 0..(MaxThreshold + 1)

ProbeFiles ==
    {[t \in {"probe"} |-> AlarmConfig("probe", "probe", wl, wh, cl, ch, el, eh)] :
        wl \in Thresholds, wh \in Thresholds, cl \in Thresholds,
        ch \in Thresholds, el \in Thresholds, eh \in Thresholds}

RetState(state) == [kind |-> "state", val |-> state]

InitClassify ==
    /\ now = 0
    /\ alarms_config \in ProbeFiles
    /\ current_states = [t \in DOMAIN alarms_config |-> NORMAL]
    /\ active_alarms = <<>>
    /\ alarm_history = <<>>
    /\ alarm_timers = <<>>
    /\ alarm_callbacks = <<"alarm_notification">>
    /\ stats = [total_alarms |-> 0, active_count |-> 0,
                acknowledged_count |-> 0, last_critical |-> None]
    /\ notified = [s \in {"alarm_notification"} |-> <<>>]
    /\ seen = [t \in DOMAIN alarms_config |-> [l \in AlarmState |-> None]]
    /\ last = Call("init", "", 0, "", None, FALSE)
    /\ ret = RetNone
    /\ threads = <<>>
    /\ base = <<>>

Classify ==
    \E value \in ProbeValues :
        /\ ret' = RetState(_determine_alarm_state(alarms_config["probe"], value))
        /\ last' = Call("_determine_alarm_state", "probe", value, "", None, FALSE)
        /\ UNCHANGED <<now, engine, seen, concurrent>>

SpecClassify == InitClassify /\ [][Classify]_vars

----------------------------------------------------------------------------
\* The engine over a configuration file with a malformed entry: the template
\* of engine_temp_1 references {unit}, which is not among the keyword
\* arguments of message_template.format; fuel_pressure is as in the default
\* set.
TemplateFile ==
    [t \in {"engine_temp_1", "fuel_pressure"} |->
        IF t = "engine_temp_1"
        THEN [DefaultEngineTemp1 EXCEPT
                 !.message_template = <<"description", "value", "unit">>]
        ELSE DefaultFuelPressure]

InitTemplate ==
    /\ now = 0
    /\ alarms_config = TemplateFile
    /\ current_states = [t \in DOMAIN alarms_config |-> NORMAL]
    /\ active_alarms = <<>>
    /\ alarm_history = <<>>
    /\ alarm_timers = <<>>
    /\ alarm_callbacks = <<"alarm_notification">>
    /\ stats = [total_alarms |-> 0, active_count |-> 0,
                acknowledged_count |-> 0, last_critical |-> None]
    /\ notified = [s \in {"alarm_notification"} |-> <<>>]
    /\ seen = [t \in DOMAIN alarms_config |-> [l \in AlarmState |-> None]]
    /\ last = Call("init", "", 0, "", None, FALSE)
    /\ ret = RetNone
    /\ threads = <<>>
    /\ base = <<>>

SpecTemplate == InitTemplate /\ [][Next]_vars

----------------------------------------------------------------------------
\* AlarmEngine.__init__ over a configuration, followed by the registration
\* of the subscribers of a list.
Constructed(config, callbacks) ==
    /\ now = 0
    /\ alarms_config = config
    /\ current_states = [t \in DOMAIN config |-> NORMAL]
    /\ active_alarms = <<>>
    /\ alarm_history = <<>>
    /\ alarm_timers = <<>>
    /\ alarm_callbacks = callbacks
    /\ stats = [total_alarms |-> 0, active_count |-> 0,
                acknowledged_count |-> 0, last_critical |-> None]
    /\ notified = [s \in {callbacks[i] : i \in 1..Len(callbacks)} |-> <<>>]
    /\ seen = [t \in DOMAIN config |-> [l \in AlarmState |-> None]]
    /\ last = Call("init", "", 0, "", None, FALSE)
    /\ ret = RetNone
    /\ threads = <<>>
    /\ base = <<>>

\* The engine with three subscribers, of which the first and the last
\* registered raise on every call.
FailingSubscribers == <<"failing_subscriber", "alarm_notification", "failing_subscriber_2">>

InitSubscribers ==
    \E config \in ConfigFiles : Constructed(config, FailingSubscribers)

SpecSubscribers == InitSubscribers /\ [][Next]_vars

----------------------------------------------------------------------------
\* A subscriber that calls evaluate_tag from inside its callback.  The calls
\* nest, so evaluate_tag and _process_alarm_event are written here as
\* functions of the engine's fields: e is the record of the fields as they
\* are when the nested call starts.

Fields ==
    [current_states |-> current_states,
     active_alarms |-> active_alarms,
     alarm_history |-> alarm_history,
     alarm_timers |-> alarm_timers,
     stats |-> stats,
     notified |-> notified,
     ret |-> ret]

\* reentrant_subscriber: called with an event of engine_temp_2, it delivers
\* the fuel pressure reading to evaluate_tag before it returns.
ReentrantSample == [tag_name |-> "fuel_pressure", value |-> 46]

Reenters(callback, event) ==
    callback = "reentrant_subscriber" /\ event.tag_name = "engine_temp_2"

\* AlarmEngine.acknowledge_alarm on the fields e.
AcknowledgeIn(e, tag_name, user) ==
    IF DictHas(e.active_alarms, tag_name)
    THEN [e EXCEPT !.alarm_history[DictGet(e.active_alarms, tag_name)] =
                       Acknowledged(@, user),
                   !.ret = RetBool(TRUE)]
    ELSE [e EXCEPT !.ret = RetBool(FALSE)]

\* observing_subscriber: called with an event, it calls acknowledge_alarm on
\* the event's tag and keeps what it sees of the engine: the event, the
\* length of the history, the confirmed level of the tag, whether the event is
\* the tag's entry in the table, the counter of events and what
\* acknowledge_alarm returned.
Observes(callback) == callback = "observing_subscriber"

Observation(e, ref, acknowledged) ==
    LET tag == e.alarm_history[ref].tag_name
    IN  [event |-> ref,
         history_count |-> Len(e.alarm_history),
         level |-> e.current_states[tag],
         active |-> /\ DictHas(e.active_alarms, tag)
                    /\ DictGet(e.active_alarms, tag) = ref,
         total_alarms |-> e.stats.total_alarms,
         acknowledged |-> acknowledged]

RECURSIVE EvaluateIn(_, _, _)
RECURSIVE ProcessIn(_, _)
RECURSIVE NotifyIn(_, _, _)

\* for callback in self.alarm_callbacks, from the i-th subscriber on: the
\* subscriber is called with the event; what it raises is caught.
NotifyIn(e, ref, i) ==
    IF i > Len(alarm_callbacks)
    THEN e
    ELSE LET callback == alarm_callbacks[i]
             called == [e EXCEPT !.notified[callback] = Append(@, ref)]
             acknowledged ==
                AcknowledgeIn(e, e.alarm_history[ref].tag_name, "SUBSCRIBER")
             returned ==
                IF Reenters(callback, e.alarm_history[ref])
                THEN EvaluateIn(called, ReentrantSample.tag_name,
                                ReentrantSample.value)
                ELSE IF Observes(callback)
                THEN [acknowledged EXCEPT
                         !.notified[callback] =
                             Append(@, Observation(e, ref, acknowledged.ret.val)),
                         !.ret = e.ret]
                ELSE called
         IN  NotifyIn(returned, ref, i + 1)

\* AlarmEngine._process_alarm_event on the fields e.
ProcessIn(e, event) ==
    LET tag == event.tag_name
        ref == Len(e.alarm_history) + 1
        appended == Append(e.alarm_history, event)
        history ==
            IF /\ event.state = NORMAL
               /\ DictHas(e.active_alarms, tag)
               /\ alarms_config[tag].auto_acknowledge
            THEN [appended EXCEPT ![DictGet(e.active_alarms, tag)] =
                                      AutoAcknowledged(@)]
            ELSE appended
        active ==
            IF event.state # NORMAL
            THEN DictSet(e.active_alarms, tag, ref)
            ELSE IF DictHas(e.active_alarms, tag)
            THEN DictDel(e.active_alarms, tag)
            ELSE e.active_alarms
        counted ==
            [total_alarms |-> e.stats.total_alarms + 1,
             active_count |-> Len(active),
             acknowledged_count |->
                Cardinality({i \in 1..Len(active) : history[active[i].val].acknowledged}),
             last_critical |->
                IF event.priority \in {HIGH, URGENT}
                THEN Some(event.timestamp)
                ELSE e.stats.last_critical]
    IN  NotifyIn([e EXCEPT !.alarm_history = history,
                           !.active_alarms = active,
                           !.stats = counted], ref, 1)

\* AlarmEngine.evaluate_tag on the fields e.
EvaluateIn(e, tag_name, value) ==
    IF tag_name \notin DOMAIN alarms_config
    THEN [e EXCEPT !.ret = RetNone]
    ELSE IF ~alarms_config[tag_name].enabled
    THEN [e EXCEPT !.ret = RetNone]
    ELSE LET config == alarms_config[tag_name]
             current_time == now
             new_state == _determine_alarm_state(config, value)
             current_state == e.current_states[tag_name]
             timer_key == TimerKey(tag_name, new_state)
         IN  IF new_state = current_state
             THEN [e EXCEPT !.ret = RetNone]
             ELSE IF timer_key \notin DOMAIN e.alarm_timers
             THEN [e EXCEPT !.alarm_timers = TimerSet(@, timer_key, current_time),
                            !.ret = RetNone]
             ELSE IF DelayPending(config, current_time, e.alarm_timers[timer_key])
             THEN [e EXCEPT !.ret = RetNone]
             ELSE LET cleared == [e EXCEPT !.alarm_timers = TimerDel(@, timer_key)]
                      event == _create_alarm_event(config, value, new_state,
                                                   current_state)
                  IN  IF event = Raised
                      THEN [cleared EXCEPT !.ret = RetRaise(event.raised)]
                      ELSE [ProcessIn([cleared EXCEPT
                                          !.current_states[tag_name] = new_state],
                                      event)
                            EXCEPT !.ret = RetEvent(Len(e.alarm_history) + 1)]

\* A collector delivers a sample to the engine with the re-entrant
\* subscriber.  The observer of classifications is not kept here.
EvaluateTagReentrant ==
    \E tag_name \in SampledTags : \E value \in SampleValues(tag_name) :
        /\ Len(alarm_history) < MaxHistory
        /\ LET e == EvaluateIn(Fields, tag_name, value) IN
           /\ current_states' = e.current_states
           /\ active_alarms' = e.active_alarms
           /\ alarm_history' = e.alarm_history
           /\ alarm_timers' = e.alarm_timers
           /\ stats' = e.stats
           /\ notified' = e.notified
           /\ ret' = e.ret
        /\ last' = Call("evaluate_tag", tag_name, value, "",
                        TimerFound(tag_name, value), FALSE)
        /\ UNCHANGED <<now, alarms_config, alarm_callbacks, seen, concurrent>>

ReentrantSubscribers == <<"reentrant_subscriber", "alarm_notification">>

InitReentrant == Constructed(PairFile, ReentrantSubscribers)

NextReentrant == Tick \/ EvaluateTagReentrant \/ AcknowledgeAlarm

SpecReentrant == InitReentrant /\ [][NextReentrant]_vars

\* The engine with the re-entrant subscriber registered before the observing
\* one, and with the observing subscriber alone.
ObservedSubscribers == <<"reentrant_subscriber", "observing_subscriber">>

InitObserved == Constructed(PairFile, ObservedSubscribers)

SpecObserved == InitObserved /\ [][NextReentrant]_vars

----------------------------------------------------------------------------
\* Calls from several threads.  AlarmEngine takes no lock, so the calls of
\* two threads interleave at every read and write of current_states,
\* alarm_timers, alarm_history and active_alarms.  A thread's frame holds the
\* call, its local variables, its position and, once it has returned, what it
\* returned.

Threads == {"thread_1", "thread_2"}

IdleFrame ==
    [pc |-> "idle", op |-> "", tag_name |-> "", value |-> 0, user |-> "",
     current_time |-> 0, new_state |-> "", current_state |-> "",
     event |-> None, ref |-> 0, ret |-> RetNone]

\* No call is in progress / the thread's call has returned or raised.
Quiescent == \A th \in Threads : threads[th].pc = "idle"
Returned(th) == threads[th].pc = "done"

\* The thread moves to a position; the thread's call returns or raises.
Goto(th, pc) == threads' = [threads EXCEPT ![th].pc = pc]
Return(th, r) == threads' = [threads EXCEPT ![th].pc = "done", ![th].ret = r]

\* evaluate_tag, lines 219-228: the configuration lookup, the clock, the
\* classification and the read of current_states.
StartEvaluate(th) ==
    \E tag_name \in SampledTags : \E value \in SampleValues(tag_name) :
        /\ threads[th].pc = "idle"
        /\ Len(alarm_history) < MaxHistory
        /\ LET called == [IdleFrame EXCEPT !.op = "evaluate_tag",
                                           !.tag_name = tag_name,
                                           !.value = value]
           IN  IF tag_name \notin DOMAIN alarms_config
               THEN threads' = [threads EXCEPT ![th] =
                                   [called EXCEPT !.pc = "done"]]
               ELSE IF ~alarms_config[tag_name].enabled
               THEN threads' = [threads EXCEPT ![th] =
                                   [called EXCEPT !.pc = "done"]]
               ELSE threads' = [threads EXCEPT ![th] =
                       [called EXCEPT
                           !.pc = "compare",
                           !.current_time = now,
                           !.new_state = _determine_alarm_state(
                                             alarms_config[tag_name], value),
                           !.current_state = current_states[tag_name]]]
        /\ UNCHANGED <<now, engine, seen, last, ret, base>>

\* evaluate_tag, lines 231-235: the comparison with the confirmed state read
\* before, and the membership test of the timer key.
Compare(th) ==
    LET f == threads[th] IN
    /\ f.pc = "compare"
    /\ IF f.new_state = f.current_state
       THEN Return(th, RetNone)
       ELSE IF TimerKey(f.tag_name, f.new_state) \notin DOMAIN alarm_timers
       THEN Goto(th, "timer_start")
       ELSE Goto(th, "delay_test")
    /\ UNCHANGED <<now, engine, seen, last, ret, base>>

\* evaluate_tag, lines 236-237: the timer is started.
TimerStart(th) ==
    LET f == threads[th] IN
    /\ f.pc = "timer_start"
    /\ alarm_timers' = TimerSet(alarm_timers, TimerKey(f.tag_name, f.new_state),
                                f.current_time)
    /\ Return(th, RetNone)
    /\ UNCHANGED <<now, alarms_config, current_states, active_alarms,
                   alarm_history, alarm_callbacks, stats, notified, seen,
                   last, ret, base>>

\* evaluate_tag, line 240: the timer is read (KeyError when it is gone) and
\* compared with the delay.
DelayTest(th) ==
    LET f == threads[th]
        timer_key == TimerKey(f.tag_name, f.new_state)
    IN  /\ f.pc = "delay_test"
        /\ IF timer_key \notin DOMAIN alarm_timers
           THEN Return(th, RetRaise("KeyError"))
           ELSE IF DelayPending(alarms_config[f.tag_name], f.current_time,
                                alarm_timers[timer_key])
           THEN Return(th, RetNone)
           ELSE Goto(th, "timer_clear")
        /\ UNCHANGED <<now, engine, seen, last, ret, base>>

\* evaluate_tag, line 244: del self.alarm_timers[timer_key] (KeyError when it
\* is gone).
TimerClear(th) ==
    LET f == threads[th]
        timer_key == TimerKey(f.tag_name, f.new_state)
    IN  /\ f.pc = "timer_clear"
        /\ IF timer_key \notin DOMAIN alarm_timers
           THEN /\ Return(th, RetRaise("KeyError"))
                /\ UNCHANGED alarm_timers
           ELSE /\ alarm_timers' = TimerDel(alarm_timers, timer_key)
                /\ Goto(th, "state_update")
        /\ UNCHANGED <<now, alarms_config, current_states, active_alarms,
                       alarm_history, alarm_callbacks, stats, notified, seen,
                       last, ret, base>>

\* evaluate_tag, lines 247-250: the event is created with the confirmed state
\* read at line 228, and current_states is written.
StateUpdate(th) ==
    LET f == threads[th]
        event == _create_alarm_event(alarms_config[f.tag_name], f.value,
                                     f.new_state, f.current_state)
    IN  /\ f.pc = "state_update"
        /\ IF event = Raised
           THEN /\ Return(th, RetRaise(event.raised))
                /\ UNCHANGED current_states
           ELSE /\ current_states' =
                      [current_states EXCEPT ![f.tag_name] = f.new_state]
                /\ threads' = [threads EXCEPT ![th].pc = "history_append",
                                              ![th].event = Some(event)]
        /\ UNCHANGED <<now, alarms_config, active_alarms, alarm_history,
                       alarm_timers, alarm_callbacks, stats, notified, seen,
                       last, ret, base>>

\* _process_alarm_event, line 331: the event is appended to the history.
HistoryAppend(th) ==
    LET f == threads[th] IN
    /\ f.pc = "history_append"
    /\ alarm_history' = Append(alarm_history, Val(f.event))
    /\ threads' = [threads EXCEPT ![th].pc = "table_update",
                                  ![th].ref = Len(alarm_history) + 1]
    /\ UNCHANGED <<now, alarms_config, current_states, active_alarms,
                   alarm_timers, alarm_callbacks, stats, notified, seen,
                   last, ret, base>>

\* _process_alarm_event, lines 334-338: the entry is written for a level
\* other than NORMAL; for NORMAL the membership of the tag is tested.
TableUpdate(th) ==
    LET f == threads[th] IN
    /\ f.pc = "table_update"
    /\ IF f.new_state # NORMAL
       THEN /\ active_alarms' = DictSet(active_alarms, f.tag_name, f.ref)
            /\ Goto(th, "statistics")
       ELSE /\ UNCHANGED active_alarms
            /\ IF DictHas(active_alarms, f.tag_name)
               THEN Goto(th, "table_read")
               ELSE Goto(th, "statistics")
    /\ UNCHANGED <<now, alarms_config, current_states, alarm_history,
                   alarm_timers, alarm_callbacks, stats, notified, seen,
                   last, ret, base>>

\* _process_alarm_event, lines 339-346: the old event is read from the table
\* (KeyError when the entry is gone) and stamped under auto_acknowledge.
TableRead(th) ==
    LET f == threads[th] IN
    /\ f.pc = "table_read"
    /\ IF ~DictHas(active_alarms, f.tag_name)
       THEN /\ Return(th, RetRaise("KeyError"))
            /\ UNCHANGED alarm_history
       ELSE /\ alarm_history' =
                  IF alarms_config[f.tag_name].auto_acknowledge
                  THEN [alarm_history EXCEPT
                           ![DictGet(active_alarms, f.tag_name)] =
                               AutoAcknowledged(@)]
                  ELSE alarm_history
            /\ Goto(th, "table_delete")
    /\ UNCHANGED <<now, alarms_config, current_states, active_alarms,
                   alarm_timers, alarm_callbacks, stats, notified, seen,
                   last, ret, base>>

\* _process_alarm_event, line 348: del self.active_alarms[event.tag_name]
\* (KeyError when the entry is gone).
TableDelete(th) ==
    LET f == threads[th] IN
    /\ f.pc = "table_delete"
    /\ IF ~DictHas(active_alarms, f.tag_name)
       THEN /\ Return(th, RetRaise("KeyError"))
            /\ UNCHANGED active_alarms
       ELSE /\ active_alarms' = DictDel(active_alarms, f.tag_name)
            /\ Goto(th, "statistics")
    /\ UNCHANGED <<now, alarms_config, current_states, alarm_history,
                   alarm_timers, alarm_callbacks, stats, notified, seen,
                   last, ret, base>>

\* _process_alarm_event, line 351: _update_statistics.
Statistics(th) ==
    LET f == threads[th] IN
    /\ f.pc = "statistics"
    /\ stats' = _update_statistics(Val(f.event), active_alarms, alarm_history)
    /\ Goto(th, "notify")
    /\ UNCHANGED <<now, alarms_config, current_states, active_alarms,
                   alarm_history, alarm_timers, alarm_callbacks, notified,
                   seen, last, ret, base>>

\* _process_alarm_event, lines 354-361, and the return of evaluate_tag: the
\* subscribers are called and the event is returned.
Notify(th) ==
    LET f == threads[th] IN
    /\ f.pc = "notify"
    /\ notified' = Dispatch(alarm_callbacks, f.ref, notified)
    /\ Return(th, RetEvent(f.ref))
    /\ UNCHANGED <<now, alarms_config, current_states, active_alarms,
                   alarm_history, alarm_timers, alarm_callbacks, stats,
                   seen, last, ret, base>>

\* acknowledge_alarm, line 374: the membership test.
StartAcknowledge(th) ==
    \E tag_name \in SampledTags : \E user \in Users :
        /\ threads[th].pc = "idle"
        /\ LET called == [IdleFrame EXCEPT !.op = "acknowledge_alarm",
                                           !.tag_name = tag_name,
                                           !.user = user]
           IN  IF DictHas(active_alarms, tag_name)
               THEN threads' = [threads EXCEPT ![th] =
                                   [called EXCEPT !.pc = "ack_read"]]
               ELSE threads' = [threads EXCEPT ![th] =
                                   [called EXCEPT !.pc = "done",
                                                  !.ret = RetBool(FALSE)]]
        /\ UNCHANGED <<now, engine, seen, last, ret, base>>

\* acknowledge_alarm, line 375: the entry is read (KeyError when it is gone).
AckRead(th) ==
    LET f == threads[th] IN
    /\ f.pc = "ack_read"
    /\ IF ~DictHas(active_alarms, f.tag_name)
       THEN Return(th, RetRaise("KeyError"))
       ELSE threads' = [threads EXCEPT ![th].pc = "ack_stamp",
                                       ![th].ref = DictGet(active_alarms, f.tag_name)]
    /\ UNCHANGED <<now, engine, seen, last, ret, base>>

\* acknowledge_alarm, lines 376-381: the event read is stamped.
AckStamp(th) ==
    LET f == threads[th] IN
    /\ f.pc = "ack_stamp"
    /\ alarm_history' = [alarm_history EXCEPT ![f.ref] = Acknowledged(@, f.user)]
    /\ Return(th, RetBool(TRUE))
    /\ UNCHANGED <<now, alarms_config, current_states, active_alarms,
                   alarm_timers, alarm_callbacks, stats, notified, seen,
                   last, ret, base>>

\* get_active_alarms called by a thread: one read of the table.
GetActiveAlarms(th) ==
    /\ threads[th].pc = "idle"
    /\ threads' = [threads EXCEPT ![th] =
                      [IdleFrame EXCEPT !.op = "get_active_alarms",
                                        !.pc = "done",
                                        !.ret = RetList(get_active_alarms)]]
    /\ UNCHANGED <<now, engine, seen, last, ret, base>>

\* Every call has returned: the callers take the results.
Join ==
    /\ ~Quiescent
    /\ \A th \in Threads : threads[th].pc \in {"idle", "done"}
    /\ threads' = [th \in Threads |-> IdleFrame]
    /\ base' = [Fields EXCEPT !.ret = RetNone]
    /\ UNCHANGED <<now, engine, seen, last, ret>>

\* The clock is read once per call: it advances between the calls.
TickQuiescent == Quiescent /\ Tick

InitConcurrent ==
    /\ now = 0
    /\ alarms_config = AutoAckFile
    /\ current_states = [t \in DOMAIN alarms_config |-> NORMAL]
    /\ active_alarms = <<>>
    /\ alarm_history = <<>>
    /\ alarm_timers = <<>>
    /\ alarm_callbacks = <<"alarm_notification">>
    /\ stats = [total_alarms |-> 0, active_count |-> 0,
                acknowledged_count |-> 0, last_critical |-> None]
    /\ notified = [s \in {"alarm_notification"} |-> <<>>]
    /\ seen = [t \in DOMAIN alarms_config |-> [l \in AlarmState |-> None]]
    /\ last = Call("init", "", 0, "", None, FALSE)
    /\ ret = RetNone
    /\ threads = [th \in Threads |-> IdleFrame]
    /\ base = Fields

Step(th) ==
    \/ StartEvaluate(th) \/ Compare(th) \/ TimerStart(th) \/ DelayTest(th)
    \/ TimerClear(th) \/ StateUpdate(th) \/ HistoryAppend(th)
    \/ TableUpdate(th) \/ TableRead(th) \/ TableDelete(th)
    \/ Statistics(th) \/ Notify(th)
    \/ StartAcknowledge(th) \/ AckRead(th) \/ AckStamp(th)
    \/ GetActiveAlarms(th)

NextConcurrent == TickQuiescent \/ Join \/ \E th \in Threads : Step(th)

SpecConcurrent == InitConcurrent /\ [][NextConcurrent]_vars

----------------------------------------------------------------------------
\* The engine with its queries, over a configuration file of three
\* temperature tags: two of priority MEDIUM and one URGENT, warning at 90.
QueryTag(tag, priority) ==
    [AlarmConfig(tag, "Temperatura", None, Some(90), None, None, None, None)
     EXCEPT !.priority = priority]

QueryFile ==
    [t \in {"engine_temp_3", "engine_temp_4", "engine_temp_5"} |->
        QueryTag(t, IF t = "engine_temp_5" THEN URGENT ELSE MEDIUM)]

QueryHours == {0, 1}

ActiveAlarmsQuery ==
    /\ ret' = RetList(get_active_alarms)
    /\ last' = Call("get_active_alarms", "", 0, "", None, FALSE)
    /\ UNCHANGED <<now, engine, seen, concurrent>>

HistoryQuery ==
    \E hours \in QueryHours :
        /\ ret' = RetList(get_alarm_history(hours))
        /\ last' = Call("get_alarm_history", "", hours, "", None, FALSE)
        /\ UNCHANGED <<now, engine, seen, concurrent>>

StatisticsQuery ==
    /\ ret' = RetDict(get_statistics)
    /\ last' = Call("get_statistics", "", 0, "", None, FALSE)
    /\ UNCHANGED <<now, engine, seen, concurrent>>

InitQueries == Constructed(QueryFile, <<"alarm_notification">>)

NextQueries ==
    \/ Tick \/ EvaluateTag \/ AcknowledgeAlarm
    \/ ActiveAlarmsQuery \/ HistoryQuery \/ StatisticsQuery

SpecQueries == InitQueries /\ [][NextQueries]_vars

----------------------------------------------------------------------------
\* The engine over a configuration file in which hydraulic_pressure, a tag
\* with low and high thresholds, has a template that renders {limit} (the
\* template of engine_temp_1 in the default set).
LimitFile ==
    [t \in {"hydraulic_pressure"} |->
        [DefaultHydraulicPressure EXCEPT
            !.message_template = DefaultEngineTemp1.message_template]]

InitLimit == Constructed(LimitFile, <<"alarm_notification">>)

SpecLimit == InitLimit /\ [][Next]_vars

----------------------------------------------------------------------------
\* The engine under a clock that never stops and collectors that keep
\* sampling.  The delay test depends on the age of a timer only, so once the
\* clock reads MaxTime its origin moves forward instead: every stored time
\* becomes one less, down to 0, and an age of MaxTime or more stays at
\* MaxTime (the delays of the enabled tags are at most MaxTime).  Event ids
\* keep the reading they were built from.
Rebased(t) == IF t > 0 THEN t - 1 ELSE 0

RebasedOptional(o) == IF IsSet(o) THEN Some(Rebased(Val(o))) ELSE None

TickRebase ==
    /\ now = MaxTime
    /\ alarm_timers' = [k \in DOMAIN alarm_timers |-> Rebased(alarm_timers[k])]
    /\ alarm_history' =
          [i \in 1..Len(alarm_history) |->
              [alarm_history[i] EXCEPT !.timestamp = Rebased(@),
                                       !.ack_timestamp = RebasedOptional(@)]]
    /\ stats' = [stats EXCEPT !.last_critical = RebasedOptional(@)]
    /\ seen' = [t \in DOMAIN seen |->
                   [l \in AlarmState |-> RebasedOptional(seen[t][l])]]
    /\ last' = Call("tick", "", 0, "", None, FALSE)
    /\ ret' = RetNone
    /\ UNCHANGED <<now, alarms_config, current_states, active_alarms,
                   alarm_callbacks, notified, concurrent>>

\* The clock advances.
Advance == Tick \/ TickRebase

InitLive == Constructed(EngineFile, <<"alarm_notification">>)

NextLive == Advance \/ EvaluateTag

\* Time passes and the collector's loop keeps delivering samples; no operator
\* acknowledges (acknowledge_alarm touches neither levels nor timers).
SpecLive ==
    /\ InitLive
    /\ [][NextLive]_vars
    /\ WF_vars(Advance)
    /\ WF_vars(EvaluateTag)

----------------------------------------------------------------------------
\* The engine over a configuration file whose tag names run into the timer
\* keys: the name of the second tag is the timer key of the first tag's
\* WARNING candidate.
NamesFile ==
    [t \in {"engine_temp", "engine_temp_WARNING"} |->
        AlarmConfig(t, "Temperatura Motor", None, Some(90), None, Some(110),
                    None, Some(130))]

InitNames == Constructed(NamesFile, <<"alarm_notification">>)

SpecNames == InitNames /\ [][Next]_vars

----------------------------------------------------------------------------
\* Construction: __init__ clears the fields and calls load_config on what the
\* configuration file holds.  A file is absent, or not readable as JSON, or
\* an object of at most MaxEntries entries, one per tag, in file order.  An
\* entry is the JSON object of a tag: the keys it has and its values.
MaxEntries == 2

ConfigFields ==
    {"tag_name", "description", "warning_low", "warning_high", "critical_low",
     "critical_high", "emergency_low", "emergency_high", "enabled", "deadband",
     "delay_seconds", "auto_acknowledge", "priority", "message_template",
     "actions"}

StoreTags == {"engine_temp_1", "cabin_temp", "pump_temp", "oil_pressure"}

\* An entry written by hand, an entry as save_config writes it (asdict puts
\* the tag_name among the keys), and an entry whose priority is no member of
\* AlarmPriority.
WrittenEntry(tag) ==
    [key |-> tag, fields |-> {"description", "warning_high", "priority"},
     description |-> "Temperatura", warning_high |-> Some(90), priority |-> HIGH]

SavedEntry(tag) == [WrittenEntry(tag) EXCEPT !.fields = ConfigFields]

UnrankedEntry(tag) == [WrittenEntry(tag) EXCEPT !.priority = 7]

Entries == UNION {{WrittenEntry(t), SavedEntry(t), UnrankedEntry(t)} : t \in StoreTags}

AbsentFile == [exists |-> FALSE, readable |-> FALSE, entries |-> <<>>]
UnreadableFile == [exists |-> TRUE, readable |-> FALSE, entries |-> <<>>]

Stores ==
    {AbsentFile, UnreadableFile} \cup
    {[exists |-> TRUE, readable |-> TRUE, entries |-> es] :
        es \in {q \in UNION {[1..n -> Entries] : n \in 0..MaxEntries} :
                   \A i, j \in DOMAIN q : q[i].key = q[j].key => i = j}}

\* The conversion of an entry raises: AlarmPriority(config['priority'])
\* raises ValueError on a value that is no priority, and
\* AlarmConfig(tag_name=tag_name, **config) raises TypeError on a second
\* tag_name, on a key that is no field, and without a description.
EntryRaises(entry) ==
    \/ "priority" \in entry.fields /\ entry.priority \notin AlarmPriority
    \/ "tag_name" \in entry.fields
    \/ ~(entry.fields \subseteq ConfigFields)
    \/ "description" \notin entry.fields

\* The AlarmConfig of an entry.
EntryConfig(entry) ==
    [AlarmConfig(entry.key, entry.description, None,
                 IF "warning_high" \in entry.fields THEN entry.warning_high ELSE None,
                 None, None, None, None)
     EXCEPT !.priority = IF "priority" \in entry.fields THEN entry.priority ELSE MEDIUM]

\* d[k] = v on a Python dict held as a function.
Assigned(d, k, v) ==
    [x \in DOMAIN d \cup {k} |-> IF x = k THEN v ELSE d[x]]

\* The loop of load_config over the entries: each entry is converted and
\* stored and its tag set to NORMAL, until a conversion raises.
RECURSIVE LoadEntries(_, _)
LoadEntries(e, entries) ==
    IF entries = <<>>
    THEN e
    ELSE IF EntryRaises(Head(entries))
    THEN [e EXCEPT !.raised = TRUE]
    ELSE LoadEntries(
            [e EXCEPT !.alarms_config =
                          Assigned(@, Head(entries).key, EntryConfig(Head(entries))),
                      !.current_states = Assigned(@, Head(entries).key, NORMAL)],
            Tail(entries))

default_alarms ==
    [t \in {"engine_temp_1", "engine_temp_2", "hydraulic_pressure",
            "fuel_pressure", "cabin_temp"} |->
        CASE t = "engine_temp_1" -> DefaultEngineTemp1
          [] t = "engine_temp_2" -> DefaultEngineTemp2
          [] t = "hydraulic_pressure" -> DefaultHydraulicPressure
          [] t = "fuel_pressure" -> DefaultFuelPressure
          [] t = "cabin_temp" -> DefaultCabinTemp]

\* Fault variant of create_default_config: the levels of the default tags are
\* not set.
CreateDefaultConfigOnly(e) ==
    [e EXCEPT !.alarms_config = default_alarms]

\* AlarmEngine.create_default_config: alarms_config becomes the default set
\* and every default tag is set to NORMAL; current_states keeps the entries
\* it has.  (save_config then writes the file; a failure is logged.)
create_default_config(e) ==
    [e EXCEPT !.alarms_config = default_alarms,
              !.current_states =
                  [t \in DOMAIN @ \cup DOMAIN default_alarms |-> NORMAL]]

\* AlarmEngine.load_config on the fields of __init__.
load_config(store) ==
    LET fresh == [alarms_config |-> <<>>, current_states |-> <<>>,
                  raised |-> FALSE]
    IN  IF ~store.exists
        THEN create_default_config(fresh)
        ELSE IF ~store.readable
        THEN create_default_config(fresh)
        ELSE LET loaded == LoadEntries(fresh, store.entries)
             IN  IF loaded.raised
                 THEN create_default_config(loaded)
                 ELSE loaded

\* __init__ up to the call of load_config.
InitLoad ==
    /\ now = 0
    /\ alarms_config = <<>>
    /\ current_states = <<>>
    /\ active_alarms = <<>>
    /\ alarm_history = <<>>
    /\ alarm_timers = <<>>
    /\ alarm_callbacks = <<>>
    /\ stats = [total_alarms |-> 0, active_count |-> 0,
                acknowledged_count |-> 0, last_critical |-> None]
    /\ notified = <<>>
    /\ seen = <<>>
    /\ last = Call("__init__", "", 0, "", None, FALSE)
    /\ ret = RetNone
    /\ threads = <<>>
    /\ base = <<>>

\* self.load_config(), on a file of Stores; the call records the file read.
LoadConfig ==
    \E store \in Stores :
        /\ last.op = "__init__"
        /\ alarms_config' = load_config(store).alarms_config
        /\ current_states' = load_config(store).current_states
        /\ seen' = [t \in DOMAIN alarms_config' |-> [l \in AlarmState |-> None]]
        /\ last' = [Call("load_config", "", 0, "", None, FALSE)
                    EXCEPT !.value = store]
        /\ ret' = RetNone
        /\ UNCHANGED <<now, active_alarms, alarm_history, alarm_timers,
                       alarm_callbacks, stats, notified, concurrent>>

SpecLoad == InitLoad /\ [][LoadConfig]_vars

----------------------------------------------------------------------------
\* The engine over a configuration file with one tag of two alarm levels and
\* auto_acknowledge set.
EscalationFile ==
    [t \in {"oil_temp"} |->
        [AlarmConfig(t, "Temperatura Aceite", None, Some(90), None, Some(110),
                     None, None)
         EXCEPT !.auto_acknowledge = TRUE, !.delay_seconds = 1]]

InitEscalation == Constructed(EscalationFile, <<"alarm_notification">>)

\* The collector delivers a sample; the call records whether the tag's entry
\* was acknowledged when it was made.
EvaluateTagObserved ==
    \E tag_name \in SampledTags : \E value \in SampleValues(tag_name) :
        /\ Len(alarm_history) < MaxHistory
        /\ evaluate_tag(tag_name, value)
        /\ last' = Call("evaluate_tag", tag_name, value, "",
                        TimerFound(tag_name, value),
                        /\ DictHas(active_alarms, tag_name)
                        /\ alarm_history[DictGet(active_alarms, tag_name)].acknowledged)
        /\ UNCHANGED <<now, alarms_config, alarm_callbacks, concurrent>>

NextEscalation == Tick \/ EvaluateTagObserved \/ AcknowledgeAlarm

SpecEscalation == InitEscalation /\ [][NextEscalation]_vars

----------------------------------------------------------------------------
\* Vocabulary of the properties.

Tags == DOMAIN alarms_config

\* The events of a tag, as indices of alarm_history.
EventsOf(tag) == {i \in 1..Len(alarm_history) : alarm_history[i].tag_name = tag}

\* The step is a call of evaluate_tag / acknowledge_alarm on the tag.
Evaluated(tag) == last'.op = "evaluate_tag" /\ last'.tag_name = tag
AcknowledgeCalled(tag) == last'.op = "acknowledge_alarm" /\ last'.tag_name = tag

\* The step appends one event to the history.
Appended == Len(alarm_history') = Len(alarm_history) + 1
NewEvent == alarm_history'[Len(alarm_history')]

\* Severity rank of a level, and the thresholds of a level.
Rank(state) ==
    CASE state = NORMAL -> 0 [] state = WARNING -> 1
      [] state = CRITICAL -> 2 [] state = EMERGENCY -> 3

HighOf(config, state) ==
    CASE state = WARNING -> config.warning_high
      [] state = CRITICAL -> config.critical_high
      [] state = EMERGENCY -> config.emergency_high

LowOf(config, state) ==
    CASE state = WARNING -> config.warning_low
      [] state = CRITICAL -> config.critical_low
      [] state = EMERGENCY -> config.emergency_low

\* A set threshold of the level is breached: value >= high or value <= low.
Breached(config, state, value) ==
    \/ HighOf(config, state) # None /\ value >= HighOf(config, state)[1]
    \/ LowOf(config, state) # None /\ value <= LowOf(config, state)[1]

\* The call of a frame made on its own on the fields e.
Replay(e, f) ==
    CASE f.op = "evaluate_tag" -> EvaluateIn(e, f.tag_name, f.value)
      [] f.op = "acknowledge_alarm" -> AcknowledgeIn(e, f.tag_name, f.user)
      [] f.op = "get_active_alarms" ->
            [e EXCEPT !.ret = RetList(ActiveAlarmsOf(e.active_alarms, e.alarm_history))]

\* The engine's fields are those of e.
SameFields(e) ==
    /\ e.current_states = current_states
    /\ e.active_alarms = active_alarms
    /\ e.alarm_history = alarm_history
    /\ e.alarm_timers = alarm_timers
    /\ e.stats = stats
    /\ e.notified = notified

\* The calls of the threads of a sequence, made one after the other from e,
\* return what the threads' calls returned and end in the engine's fields.
RECURSIVE SerialFrom(_, _)
SerialFrom(e, order) ==
    IF order = <<>>
    THEN SameFields(e)
    ELSE LET r == Replay(e, threads[Head(order)])
         IN  r.ret = threads[Head(order)].ret /\ SerialFrom(r, Tail(order))

\* The orders of the threads whose call has returned.
Orders ==
    LET done == {th \in Threads : Returned(th)}
    IN  {o \in [1..Cardinality(done) -> done] :
            \A i, j \in DOMAIN o : o[i] = o[j] => i = j}

\* Every call has returned, and the outcome is that of the calls made one
\* after the other, in some order, since no call was in progress.
AllReturned == \A th \in Threads : Returned(th)
Serializable == \E o \in Orders : SerialFrom(base, o)

----------------------------------------------------------------------------
\* C1: after any sequence of evaluate and acknowledge calls, a tag has an
\* entry in active_alarms if and only if its confirmed level in
\* current_states is not NORMAL (and the table holds configured tags only).
C1_ActiveIffNotNormal ==
    /\ DictKeys(active_alarms) \subseteq Tags
    /\ \A t \in Tags : DictHas(active_alarms, t) <=> current_states[t] # NORMAL

\* A tag that was active has returned to NORMAL and left the table, after an
\* acknowledge call.
C1_Witness ==
    \E t \in Tags :
        /\ current_states[t] = NORMAL
        /\ ~DictHas(active_alarms, t)
        /\ \E i \in EventsOf(t) :
              alarm_history[i].state # NORMAL /\ alarm_history[i].acknowledged

\* C2: a confirmed level changes only in an evaluation of the tag whose
\* sample classifies to the new level L, and only when an evaluation of the
\* tag classified to L at a time <= now - delay since the confirmed level
\* became what it is: the first evaluation to observe L since then never
\* confirms.
C2_ConfirmedOnlyAfterObservedDelay ==
    [][\A t \in Tags :
          current_states'[t] # current_states[t] =>
              /\ Evaluated(t)
              /\ _determine_alarm_state(alarms_config[t], last'.value) = current_states'[t]
              /\ IsSet(seen[t][current_states'[t]])
              /\ Val(seen[t][current_states'[t]]) <= now - alarms_config[t].delay_seconds
      ]_vars

\* C3: delay boundary.  For a configured, enabled tag and a sample that
\* classifies to L different from the confirmed level: with no timer for
\* (tag, L) the call starts the timer at now and returns no event; with a
\* timer younger than the delay it returns no event and leaves confirmed
\* levels, table, history and timers as they are; with a timer at least as
\* old as the delay it returns the confirmed event for L, with the previous
\* level, and the confirmed level becomes L.
C3_DelayBoundary ==
    [][\A t \in Tags :
          (Evaluated(t) /\ alarms_config[t].enabled) =>
              LET config == alarms_config[t]
                  L == _determine_alarm_state(config, last'.value)
                  key == TimerKey(t, L)
              IN  L # current_states[t] =>
                  /\ key \notin DOMAIN alarm_timers =>
                        /\ key \in DOMAIN alarm_timers'
                        /\ alarm_timers'[key] = now
                        /\ ret' = RetNone
                        /\ UNCHANGED <<current_states, active_alarms, alarm_history>>
                  /\ (key \in DOMAIN alarm_timers
                        /\ now - alarm_timers[key] < config.delay_seconds) =>
                        /\ ret' = RetNone
                        /\ UNCHANGED <<current_states, active_alarms,
                                       alarm_history, alarm_timers>>
                  /\ (key \in DOMAIN alarm_timers
                        /\ now - alarm_timers[key] >= config.delay_seconds) =>
                        /\ Appended
                        /\ ret' = RetEvent(Len(alarm_history'))
                        /\ NewEvent.tag_name = t
                        /\ NewEvent.state = L
                        /\ NewEvent.previous_state = current_states[t]
                        /\ NewEvent.timestamp = now
                        /\ current_states'[t] = L
                        /\ key \notin DOMAIN alarm_timers'
                        /\ L # NORMAL =>
                              /\ DictHas(active_alarms', t)
                              /\ DictGet(active_alarms', t) = Len(alarm_history')
      ]_vars

\* Scenario A: engine_temp_1 (delay 2) sampled 95.0 at t=1 and again at t=3
\* has exactly one event, WARNING with previous NORMAL, stamped t=3, returned
\* by the call, and is in the table.
C3_Witness ==
    /\ now = 3
    /\ last = Call("evaluate_tag", "engine_temp_1", 95, "", Some(1), FALSE)
    /\ ret = RetEvent(1)
    /\ Len(alarm_history) = 1
    /\ alarm_history[1].tag_name = "engine_temp_1"
    /\ alarm_history[1].state = WARNING
    /\ alarm_history[1].previous_state = NORMAL
    /\ alarm_history[1].timestamp = 3
    /\ current_states["engine_temp_1"] = WARNING
    /\ DictHas(active_alarms, "engine_temp_1")

\* C4: the previous_state of a confirmed event is the tag's confirmed level
\* at the moment of confirmation (current_states before the update), and it
\* stays that afterwards.
C4_PreviousIsLastConfirmed ==
    [][/\ Appended => NewEvent.previous_state = current_states[NewEvent.tag_name]
       /\ \A i \in 1..Len(alarm_history) :
             /\ i <= Len(alarm_history')
             /\ alarm_history'[i].previous_state = alarm_history[i].previous_state
      ]_vars

\* An event was confirmed while another level of its tag was a pending
\* candidate (its timer started earlier and is still there): the event's
\* previous level is neither that candidate nor the new level.
C4_Witness ==
    \E i \in 1..Len(alarm_history) :
        LET e == alarm_history[i] IN
        \E L \in AlarmState \ {e.state, e.previous_state} :
            /\ TimerKey(e.tag_name, L) \in DOMAIN alarm_timers
            /\ alarm_timers[TimerKey(e.tag_name, L)] < e.timestamp

\* C5: evaluate_tag on a tag with no configuration returns None and changes
\* no confirmed level, timer, table entry, history event or counter, and
\* calls no subscriber.
C5_UnconfiguredTagIsNoOp ==
    [][\A t \in SampledTags \ Tags :
          Evaluated(t) =>
              /\ ret' = RetNone
              /\ UNCHANGED <<current_states, alarm_timers, active_alarms,
                             alarm_history, stats, notified>>
      ]_vars

\* The unconfigured tag was sampled on an engine that has pending timers, an
\* active alarm and history.
C5_Witness ==
    /\ last.op = "evaluate_tag"
    /\ last.tag_name \notin Tags
    /\ ret = RetNone
    /\ DOMAIN alarm_timers # {}
    /\ Len(active_alarms) > 0
    /\ Len(alarm_history) > 0

\* C6: acknowledge_alarm on a tag with no entry in active_alarms returns
\* False (no error) and leaves the table, every event of the history, the
\* confirmed levels, the timers and the statistics unchanged.
C6_AcknowledgeInactiveIsNoOp ==
    [][\A t \in SampledTags :
          (AcknowledgeCalled(t) /\ ~DictHas(active_alarms, t)) =>
              /\ ret' = RetBool(FALSE)
              /\ UNCHANGED <<active_alarms, alarm_history, current_states,
                             alarm_timers, stats>>
      ]_vars

\* acknowledge_alarm returned False for a tag that has an unacknowledged
\* event in the history and is no longer active.
C6_Witness ==
    /\ last.op = "acknowledge_alarm"
    /\ ret = RetBool(FALSE)
    /\ ~DictHas(active_alarms, last.tag_name)
    /\ \E i \in EventsOf(last.tag_name) :
          alarm_history[i].state # NORMAL /\ ~alarm_history[i].acknowledged

\* C7: acknowledge_alarm on a tag with an active entry returns True, sets
\* acknowledged and the user of this call on the entry, keeps the table and
\* the confirmed levels as they are and touches no other event; this also
\* holds when the entry was acknowledged already.
C7_AcknowledgeActive ==
    [][\A t \in Tags :
          (AcknowledgeCalled(t) /\ DictHas(active_alarms, t)) =>
              LET ref == DictGet(active_alarms, t) IN
              /\ ret' = RetBool(TRUE)
              /\ alarm_history'[ref].acknowledged
              /\ alarm_history'[ref].ack_user = Some(last'.user)
              /\ alarm_history'[ref].ack_timestamp = Some(now)
              /\ active_alarms' = active_alarms
              /\ current_states' = current_states
              /\ Len(alarm_history') = Len(alarm_history)
              /\ \A i \in 1..Len(alarm_history) :
                    i # ref => alarm_history'[i] = alarm_history[i]
      ]_vars

\* A repeated acknowledge: the entry was acknowledged already, at an earlier
\* time, and now carries the user and time of this call.
C7_Witness ==
    /\ last.op = "acknowledge_alarm"
    /\ last.was_acknowledged
    /\ ret = RetBool(TRUE)
    /\ DictHas(active_alarms, last.tag_name)
    /\ alarm_history[DictGet(active_alarms, last.tag_name)].ack_user = Some(last.user)
    /\ alarm_history[DictGet(active_alarms, last.tag_name)].ack_timestamp = Some(now)
    /\ now > alarm_history[DictGet(active_alarms, last.tag_name)].timestamp

\* C8: auto-acknowledge.  When a tag's non-NORMAL event is followed by the
\* tag's NORMAL event, then with auto_acknowledge the earlier event is
\* acknowledged by "SYSTEM", the NORMAL event is another record and is not
\* acknowledged, and while NORMAL is the tag's last event the tag is not in
\* the table; without auto_acknowledge the confirmation of NORMAL leaves
\* every earlier event as it was.
C8_AutoAcknowledge ==
    /\ [](\A i \in 1..Len(alarm_history) : \A j \in 1..Len(alarm_history) :
            LET e == alarm_history[i]
                n == alarm_history[j]
            IN  (/\ i < j
                 /\ e.tag_name = n.tag_name
                 /\ e.state # NORMAL
                 /\ n.state = NORMAL
                 /\ \A k \in EventsOf(e.tag_name) : ~(i < k /\ k < j)) =>
                    /\ alarms_config[e.tag_name].auto_acknowledge =>
                          e.acknowledged /\ e.ack_user = Some("SYSTEM")
                    /\ ~n.acknowledged
                    /\ n.ack_user = None
                    /\ (\A k \in EventsOf(e.tag_name) : k <= j) =>
                          ~DictHas(active_alarms, e.tag_name))
    /\ [][(Appended /\ NewEvent.state = NORMAL
              /\ ~alarms_config[NewEvent.tag_name].auto_acknowledge) =>
              \A i \in 1..Len(alarm_history) : alarm_history'[i] = alarm_history[i]
         ]_vars

\* The cycle NORMAL -> WARNING -> NORMAL of a tag with auto_acknowledge: two
\* records, the WARNING one acknowledged by "SYSTEM", the tag not in the table.
C8_Witness ==
    \E i \in 1..Len(alarm_history) : \E j \in 1..Len(alarm_history) :
        /\ i < j
        /\ alarm_history[i].tag_name = alarm_history[j].tag_name
        /\ alarms_config[alarm_history[i].tag_name].auto_acknowledge
        /\ alarm_history[i].previous_state = NORMAL
        /\ alarm_history[i].state = WARNING
        /\ alarm_history[j].previous_state = WARNING
        /\ alarm_history[j].state = NORMAL
        /\ alarm_history[i].acknowledged
        /\ alarm_history[i].ack_user = Some("SYSTEM")
        /\ ~alarm_history[j].acknowledged
        /\ ~DictHas(active_alarms, alarm_history[i].tag_name)

\* C9: severity-first classification, for every combination of set and unset
\* thresholds and every value: EMERGENCY if an emergency threshold is
\* breached, otherwise CRITICAL if a critical one is, otherwise WARNING if a
\* warning one is; never a level less severe than a breached level.
C9_SeverityFirst ==
    last.op = "_determine_alarm_state" =>
        LET config == alarms_config[last.tag_name]
            v == last.value
        IN  /\ Breached(config, EMERGENCY, v) => ret.val = EMERGENCY
            /\ (~Breached(config, EMERGENCY, v) /\ Breached(config, CRITICAL, v)) =>
                  ret.val = CRITICAL
            /\ (~Breached(config, EMERGENCY, v) /\ ~Breached(config, CRITICAL, v)
                  /\ Breached(config, WARNING, v)) => ret.val = WARNING
            /\ \A L \in {WARNING, CRITICAL, EMERGENCY} :
                  Breached(config, L, v) => Rank(ret.val) >= Rank(L)

\* Inconsistently ordered thresholds: the value is at or above warning_high
\* and emergency_high, below critical_high, and classifies EMERGENCY.
C9_Witness ==
    /\ last.op = "_determine_alarm_state"
    /\ LET config == alarms_config[last.tag_name] IN
       /\ IsSet(config.warning_high) /\ IsSet(config.critical_high)
       /\ IsSet(config.emergency_high)
       /\ Val(config.emergency_high) < Val(config.critical_high)
       /\ last.value >= Val(config.warning_high)
       /\ last.value >= Val(config.emergency_high)
       /\ last.value < Val(config.critical_high)
    /\ ret = RetState(EMERGENCY)

\* C10: classify returns NORMAL exactly when no set threshold is breached,
\* where a high threshold is breached iff value >= threshold and a low one
\* iff value <= threshold, either one of a level suffices, and an unset
\* threshold is never breached.
C10_NormalIffNothingBreached ==
    last.op = "_determine_alarm_state" =>
        LET config == alarms_config[last.tag_name]
            high == {config.warning_high, config.critical_high, config.emergency_high}
            low == {config.warning_low, config.critical_low, config.emergency_low}
        IN  ret.val = NORMAL <=>
                /\ \A h \in high \ {None} : ~(last.value >= Val(h))
                /\ \A l \in low \ {None} : ~(last.value <= Val(l))

\* A value exactly on the only set threshold (warning_low) is not NORMAL.
C10_Witness ==
    /\ last.op = "_determine_alarm_state"
    /\ LET config == alarms_config[last.tag_name] IN
       /\ IsSet(config.warning_low)
       /\ last.value = Val(config.warning_low)
       /\ config.warning_high = None
       /\ config.critical_low = None /\ config.critical_high = None
       /\ config.emergency_low = None /\ config.emergency_high = None
    /\ ret = RetState(WARNING)

\* C11: message rendering failure does not abort a transition.  When an
\* evaluation of a tag finds its candidate level's timer at least as old as
\* the delay, then also for a tag whose template cannot be rendered the call
\* raises no error, the confirmed level becomes the candidate, one event of
\* that level is appended to the history and the table is updated.
C11_RenderingFailureKeepsTransition ==
    [][\A t \in Tags :
          (Evaluated(t) /\ alarms_config[t].enabled) =>
              LET config == alarms_config[t]
                  L == _determine_alarm_state(config, last'.value)
                  key == TimerKey(t, L)
              IN  (/\ L # current_states[t]
                   /\ key \in DOMAIN alarm_timers
                   /\ now - alarm_timers[key] >= config.delay_seconds) =>
                      /\ ret'.kind # "raise"
                      /\ current_states'[t] = L
                      /\ Appended
                      /\ NewEvent.tag_name = t
                      /\ NewEvent.state = L
                      /\ DictHas(active_alarms', t) <=> L # NORMAL
      ]_vars

\* C12: subscriber failure isolation.  When an event is confirmed and a
\* subscriber raises while being notified, every registered subscriber is
\* still called with that event (once, in confirmation order), evaluate_tag
\* returns the event without raising, and the confirmed level, the table,
\* the history and the counters are what the confirmation makes them.
C12_SubscriberFailureIsolated ==
    /\ [](\A s \in DOMAIN notified :
            notified[s] = [i \in 1..Len(alarm_history) |-> i])
    /\ [][Appended =>
            LET t == NewEvent.tag_name IN
            /\ Evaluated(t)
            /\ ret' = RetEvent(Len(alarm_history'))
            /\ \A s \in DOMAIN notified :
                  notified'[s] = Append(notified[s], Len(alarm_history'))
            /\ current_states' = [current_states EXCEPT ![t] = NewEvent.state]
            /\ Len(alarm_history') = Len(alarm_history) + 1
            /\ DictHas(active_alarms', t) <=> NewEvent.state # NORMAL
            /\ DictHas(active_alarms', t) =>
                  DictGet(active_alarms', t) = Len(alarm_history')
            /\ stats'.total_alarms = stats.total_alarms + 1
            /\ stats'.active_count = Len(active_alarms')
         ]_vars

\* An evaluation returned its event on an engine whose first and last
\* subscribers raise: all three subscribers were called with it, and with
\* the event before it.
C12_Witness ==
    /\ Len(alarm_callbacks) = 3
    /\ SubscriberRaises(alarm_callbacks[1])
    /\ ~SubscriberRaises(alarm_callbacks[2])
    /\ SubscriberRaises(alarm_callbacks[3])
    /\ last.op = "evaluate_tag"
    /\ ret = RetEvent(2)
    /\ \A s \in DOMAIN notified : notified[s] = <<1, 2>>
    /\ current_states[last.tag_name] = alarm_history[2].state

\* C13: each confirmed event is delivered exactly once to every registered
\* subscriber, and every subscriber receives the events in the order of the
\* history, also when a subscriber calls evaluate_tag from inside its
\* callback and thereby confirms a further transition.
C13_DeliveredOnceInHistoryOrder ==
    \A s \in DOMAIN notified :
        notified[s] = [i \in 1..Len(alarm_history) |-> i]

\* C14: same-tag evaluations do not race.  Under every interleaving of two
\* concurrent evaluate_tag calls for the same tag, neither call fails and
\* the returned values and the final state are those of the two calls made
\* one after the other in some order (so one elapsed candidate yields one
\* event).
C14_SameTagEvaluationsSerialize ==
    (/\ AllReturned
     /\ \A th \in Threads : threads[th].op = "evaluate_tag"
     /\ \E t \in Tags : \A th \in Threads : threads[th].tag_name = t) =>
        /\ \A th \in Threads : threads[th].ret.kind # "raise"
        /\ Serializable

\* C15: mutations of the table and the history are serialized against
\* acknowledge_alarm and the queries.  An acknowledge_alarm running
\* concurrently with an evaluate_tag of the same tag never fails midway and
\* the two return what they return, and leave the state they leave, when
\* made one after the other in some order; and at a concurrent
\* get_active_alarms call the table and the confirmed levels agree.
C15_AcknowledgeAndQueriesSerialize ==
    /\ []((/\ AllReturned
           /\ \E a, b \in Threads :
                 /\ threads[a].op = "acknowledge_alarm"
                 /\ threads[b].op = "evaluate_tag"
                 /\ threads[a].tag_name = threads[b].tag_name) =>
              /\ \A th \in Threads : threads[th].ret.kind # "raise"
              /\ Serializable)
    /\ [][\A th \in Threads :
             (threads[th].pc = "idle" /\ threads'[th].op = "get_active_alarms") =>
                 C1_ActiveIffNotNormal
         ]_vars

\* C16: at every call get_statistics reports the current counts:
\* active_count is the number of entries of the table, acknowledged_count
\* the number of entries that are acknowledged, unacknowledged_count the
\* number that are not; so acknowledged_count + unacknowledged_count =
\* active_count, also right after a successful acknowledge_alarm.
C16_StatisticsAreCurrent ==
    last.op = "get_statistics" =>
        LET entries == 1..Len(active_alarms)
            acked == {i \in entries : alarm_history[active_alarms[i].val].acknowledged}
        IN  /\ ret.val.active_count = Cardinality(entries)
            /\ ret.val.acknowledged_count = Cardinality(acked)
            /\ ret.val.unacknowledged_count = Cardinality(entries \ acked)
            /\ ret.val.acknowledged_count + ret.val.unacknowledged_count
                  = ret.val.active_count

\* C17: the limit rendered into a confirmed event's message is the threshold
\* of the new level in the direction that was breached: the low threshold
\* when value <= low threshold, the high threshold when value >= high
\* threshold, also for a tag that has both thresholds of the level set.
C17_LimitIsBreachedThreshold ==
    [][(Appended /\ NewEvent.state # NORMAL) =>
          LET config == alarms_config[NewEvent.tag_name]
              low == LowOf(config, NewEvent.state)
              high == HighOf(config, NewEvent.state)
          IN  \A i \in 1..Len(config.message_template) :
                  config.message_template[i] = "limit" =>
                      /\ (IsSet(low) /\ NewEvent.value <= Val(low)) =>
                            NewEvent.message[i] = ToString(Val(low))
                      /\ (IsSet(high) /\ NewEvent.value >= Val(high)) =>
                            NewEvent.message[i] = ToString(Val(high))
      ]_vars

\* C18: get_alarm_history(hours) returns exactly the events of the history
\* whose timestamp lies in [now - hours, now], each once and in append
\* order; on an engine with no events it returns the empty list, not an
\* error.
C18_HistoryWindow ==
    last.op = "get_alarm_history" =>
        LET window == last.value * SecondsPerHour
            inside == {i \in 1..Len(alarm_history) :
                          /\ now - window <= alarm_history[i].timestamp
                          /\ alarm_history[i].timestamp <= now}
        IN  /\ ret.kind = "list"
            /\ {ret.val[k] : k \in 1..Len(ret.val)} = inside
            /\ \A k \in 1..Len(ret.val) : \A l \in 1..Len(ret.val) :
                  k < l => ret.val[k] < ret.val[l]
            /\ alarm_history = <<>> => ret.val = <<>>

\* A query with window 0 returned the event stamped at the cutoff and left
\* out an earlier event.
C18_Witness ==
    /\ last.op = "get_alarm_history"
    /\ last.value = 0
    /\ Len(alarm_history) >= 2
    /\ alarm_history[1].timestamp < now
    /\ ret = RetList(<<Len(alarm_history)>>)
    /\ alarm_history[Len(alarm_history)].timestamp = now

\* C19: get_active_alarms returns every entry of the table exactly once,
\* ordered by priority descending; entries of equal priority are in the
\* table's insertion order; the call does not modify the table.
C19_ActiveAlarmsOrdered ==
    [][last'.op = "get_active_alarms" =>
          LET r == ret'.val
              position(ref) == CHOOSE i \in 1..Len(active_alarms) :
                                   active_alarms[i].val = ref
          IN  /\ Len(r) = Len(active_alarms)
              /\ {r[k] : k \in 1..Len(r)} =
                    {active_alarms[i].val : i \in 1..Len(active_alarms)}
              /\ \A k \in 1..Len(r) : \A l \in 1..Len(r) :
                    k < l =>
                       /\ alarm_history[r[k]].priority >= alarm_history[r[l]].priority
                       /\ alarm_history[r[k]].priority = alarm_history[r[l]].priority
                             => position(r[k]) < position(r[l])
              /\ UNCHANGED <<active_alarms, alarm_history>>
      ]_vars

\* Three active alarms, inserted MEDIUM engine_temp_4, MEDIUM engine_temp_3,
\* URGENT engine_temp_5: the query returned the URGENT one first and the two
\* MEDIUM ones in their insertion order.
C19_Witness ==
    /\ last.op = "get_active_alarms"
    /\ Len(active_alarms) = 3
    /\ active_alarms[1].key = "engine_temp_4"
    /\ active_alarms[2].key = "engine_temp_3"
    /\ active_alarms[3].key = "engine_temp_5"
    /\ ret = RetList(<<active_alarms[3].val, active_alarms[1].val,
                       active_alarms[2].val>>)

\* C20: every event has a unique identifier: any two distinct events of the
\* history have different ids, also two events of the same tag confirmed at
\* the same clock reading.
C20_EventIdsUnique ==
    \A i \in 1..Len(alarm_history) : \A j \in 1..Len(alarm_history) :
        i # j => alarm_history[i].id # alarm_history[j].id

\* C21: pending entries are removed once confirmed or superseded.  When an
\* evaluation of a tag starts a timer for a candidate level, or confirms a
\* transition of the tag, no timer for any other candidate level of the tag
\* remains afterwards.
C21_SupersededTimersRemoved ==
    [][\A t \in Tags :
          Evaluated(t) =>
              \A L \in AlarmState :
                  (\/ /\ TimerKey(t, L) \notin DOMAIN alarm_timers
                      /\ TimerKey(t, L) \in DOMAIN alarm_timers'
                   \/ /\ current_states'[t] # current_states[t]
                      /\ current_states'[t] = L) =>
                      \A M \in AlarmState \ {L} :
                          TimerKey(t, M) \notin DOMAIN alarm_timers'
      ]_vars

\* C22: flicker to another candidate.  An evaluation of a tag whose sample
\* classifies to a level L2 that has no timer starts the timer (tag, L2) at
\* this sample and keeps every other timer, in particular that of an earlier
\* candidate L1, with its first-seen time; an evaluation that finds its
\* candidate's timer younger than the delay changes no timer; and a sample
\* classifying to L1 at or after firstSeen(L1) + delay confirms L1.
C22_FlickerKeepsOriginalTimer ==
    [][\A t \in Tags :
          (Evaluated(t) /\ alarms_config[t].enabled) =>
              LET config == alarms_config[t]
                  L == _determine_alarm_state(config, last'.value)
                  key == TimerKey(t, L)
              IN  L # current_states[t] =>
                  /\ key \notin DOMAIN alarm_timers =>
                        /\ DOMAIN alarm_timers' = DOMAIN alarm_timers \cup {key}
                        /\ alarm_timers'[key] = now
                        /\ \A k \in DOMAIN alarm_timers :
                              alarm_timers'[k] = alarm_timers[k]
                  /\ (key \in DOMAIN alarm_timers
                        /\ now < alarm_timers[key] + config.delay_seconds) =>
                        alarm_timers' = alarm_timers
                  /\ (key \in DOMAIN alarm_timers
                        /\ now >= alarm_timers[key] + config.delay_seconds) =>
                        /\ current_states'[t] = L
                        /\ Appended
                        /\ NewEvent.state = L
                        /\ DOMAIN alarm_timers' = DOMAIN alarm_timers \ {key}
                        /\ \A k \in DOMAIN alarm_timers' :
                              alarm_timers'[k] = alarm_timers[k]
      ]_vars

\* engine_temp_1 (delay 2): WARNING first seen at t=0, CRITICAL seen at t=1
\* before the delay of WARNING elapsed, WARNING sampled again at t=2: WARNING
\* is confirmed on the timer of t=0 and the CRITICAL timer of t=1 is pending.
C22_Witness ==
    /\ now = 2
    /\ last = Call("evaluate_tag", "engine_temp_1", 95, "", Some(0), FALSE)
    /\ ret.kind = "event"
    /\ current_states["engine_temp_1"] = WARNING
    /\ alarm_history[Len(alarm_history)].previous_state = NORMAL
    /\ TimerKey("engine_temp_1", CRITICAL) \in DOMAIN alarm_timers
    /\ alarm_timers[TimerKey("engine_temp_1", CRITICAL)] = 1

\* C23: intermediate samples do not reset a pending timer.  A sample that
\* classifies to the tag's confirmed level creates no timer and produces no
\* event; an evaluation that confirms nothing leaves every pending timer
\* with its first-seen time; and when candidate L, different from the
\* confirmed level, was first seen at t0 and nothing was confirmed for the
\* tag since, a sample classifying to L at t >= t0 + delay confirms L.
C23_IntermediateSamplesKeepTimer ==
    [][\A t \in Tags :
          (Evaluated(t) /\ alarms_config[t].enabled) =>
              LET config == alarms_config[t]
                  L == _determine_alarm_state(config, last'.value)
              IN  /\ L = current_states[t] =>
                        /\ alarm_timers' = alarm_timers
                        /\ ret' = RetNone
                        /\ UNCHANGED <<current_states, alarm_history, active_alarms>>
                  /\ current_states' = current_states =>
                        \A k \in DOMAIN alarm_timers :
                            /\ k \in DOMAIN alarm_timers'
                            /\ alarm_timers'[k] = alarm_timers[k]
                  /\ (/\ L # current_states[t]
                      /\ IsSet(seen[t][L])
                      /\ now >= Val(seen[t][L]) + config.delay_seconds) =>
                        /\ current_states'[t] = L
                        /\ Appended
                        /\ NewEvent.state = L
                        /\ ret' = RetEvent(Len(alarm_history'))
      ]_vars

\* engine_temp_1 (delay 2): WARNING first seen at t=0, a CRITICAL sample at
\* t=1, and the WARNING sample of t=3 confirms WARNING on the timer of t=0.
C23_Witness ==
    /\ now = 3
    /\ last = Call("evaluate_tag", "engine_temp_1", 95, "", Some(0), FALSE)
    /\ ret = RetEvent(1)
    /\ alarm_history[1].state = WARNING
    /\ alarm_history[1].timestamp = 3
    /\ TimerKey("engine_temp_1", CRITICAL) \in DOMAIN alarm_timers
    /\ alarm_timers[TimerKey("engine_temp_1", CRITICAL)] = 1

\* The enabled tag of SpecLive; the tag's confirmed level is L and L is the
\* level of its latest event (or it never left NORMAL).
LiveTags == {"engine_temp_1"}

Settled(t, L) ==
    /\ current_states[t] = L
    /\ IF EventsOf(t) = {}
       THEN L = NORMAL
       ELSE \E i \in EventsOf(t) :
               /\ \A j \in EventsOf(t) : j <= i
               /\ alarm_history[i].state = L

Active(active, tag) == \E i \in 1..Len(active) : active[i].key = tag
TimersOf(timers, tag) ==
    {L \in AlarmState : TimerKey(tag, L) \in DOMAIN timers}

\* C25: absence of sampling confirms nothing.  A step that is not a call of
\* evaluate_tag on a tag (the passage of time, acknowledge_alarm,
\* get_active_alarms, get_alarm_history, get_statistics, or evaluate_tag on
\* another tag) leaves the tag's confirmed level as it is, adds and removes
\* no pending timer of the tag, adds and removes no table entry of the tag
\* and appends no event of the tag; a step that is no call of evaluate_tag at
\* all leaves the levels, the timers, the keys of the table and the length of
\* the history as they are.
C25_OnlySamplingChangesState ==
    [][/\ \A t \in Tags : ~Evaluated(t) =>
            /\ current_states'[t] = current_states[t]
            /\ TimersOf(alarm_timers', t) = TimersOf(alarm_timers, t)
            /\ Active(active_alarms', t) <=> Active(active_alarms, t)
            /\ {i \in 1..Len(alarm_history') : alarm_history'[i].tag_name = t}
                  = EventsOf(t)
       /\ last'.op # "evaluate_tag" =>
            /\ current_states' = current_states
            /\ alarm_timers' = alarm_timers
            /\ [i \in 1..Len(active_alarms') |-> active_alarms'[i].key]
                  = [i \in 1..Len(active_alarms) |-> active_alarms[i].key]
            /\ Len(alarm_history') = Len(alarm_history)
      ]_vars

\* An operator has acknowledged one tag's alarm while another tag's
\* candidate, old enough to be confirmed, is still pending.
C25_Witness ==
    /\ last.op = "acknowledge_alarm"
    /\ ret = RetBool(TRUE)
    /\ \E t \in Tags \ {last.tag_name} :
          /\ current_states[t] = NORMAL
          /\ TimerKey(t, WARNING) \in DOMAIN alarm_timers
          /\ now >= alarm_timers[TimerKey(t, WARNING)] + alarms_config[t].delay_seconds
          /\ now > alarm_timers[TimerKey(t, WARNING)]

\* C26: evaluate_tag on a tag whose configuration has enabled = False does
\* nothing, whatever the value: it returns None, starts and clears no timer,
\* leaves the levels, the table, the history and the counters as they are
\* and calls no subscriber.
C26_DisabledTagIsNoOp ==
    [][\A t \in Tags : (Evaluated(t) /\ ~alarms_config[t].enabled) =>
            /\ ret' = RetNone
            /\ alarm_timers' = alarm_timers
            /\ current_states' = current_states
            /\ active_alarms' = active_alarms
            /\ alarm_history' = alarm_history
            /\ stats' = stats
            /\ notified' = notified
      ]_vars

\* The disabled cabin_temp is sampled at a value beyond its critical
\* threshold while the engine holds an alarm of another tag.
C26_Witness ==
    /\ last.op = "evaluate_tag"
    /\ last.tag_name = "cabin_temp"
    /\ ~alarms_config["cabin_temp"].enabled
    /\ _determine_alarm_state(alarms_config["cabin_temp"], last.value) = CRITICAL
    /\ ret = RetNone
    /\ current_states["cabin_temp"] = NORMAL
    /\ active_alarms # <<>>

\* What an event records of its transition: every field but the
\* acknowledgment.
Transition(event) ==
    [id |-> event.id, tag_name |-> event.tag_name,
     timestamp |-> event.timestamp, state |-> event.state,
     previous_state |-> event.previous_state, value |-> event.value,
     message |-> event.message, priority |-> event.priority,
     auto_cleared |-> event.auto_cleared]

\* C27: the history is append-only and complete.  The timestamps of the
\* events do not decrease along alarm_history.  No step removes or reorders
\* an event: the events there stay where they are with the transition they
\* record, and a step adds at most one event, at the end.  Every change of a
\* confirmed level (into NORMAL too) appends exactly one event, the event of
\* that change, stamped with the time of the call.  evaluate_tag returns an
\* event if and only if it appended that event as the last entry of the
\* history, and only evaluate_tag appends.
C27_HistoryAppendOnly ==
    /\ [](\A i, j \in 1..Len(alarm_history) :
             i <= j => alarm_history[i].timestamp <= alarm_history[j].timestamp)
    /\ [][/\ Len(alarm_history') \in {Len(alarm_history), Len(alarm_history) + 1}
          /\ \A i \in 1..Len(alarm_history) :
                Transition(alarm_history'[i]) = Transition(alarm_history[i])
          /\ \A t \in Tags : current_states'[t] # current_states[t] =>
                /\ Appended
                /\ NewEvent.tag_name = t
                /\ NewEvent.state = current_states'[t]
                /\ NewEvent.previous_state = current_states[t]
          /\ Appended =>
                /\ last'.op = "evaluate_tag"
                /\ NewEvent.tag_name = last'.tag_name
                /\ NewEvent.timestamp = now
                /\ current_states'[NewEvent.tag_name] # current_states[NewEvent.tag_name]
          /\ last'.op = "evaluate_tag" =>
                (ret'.kind = "event" <=>
                    (Appended /\ ret' = RetEvent(Len(alarm_history'))))
          /\ (last'.op = "evaluate_tag" /\ ~Appended) => ret' = RetNone
         ]_vars

\* A tag has gone to WARNING and back to NORMAL, an operator has acknowledged
\* in between, and the history holds both events in the order and at the
\* times of their confirmation.
C27_Witness ==
    /\ Len(alarm_history) = 2
    /\ last.op = "evaluate_tag"
    /\ ret = RetEvent(2)
    /\ alarm_history[1].tag_name = alarm_history[2].tag_name
    /\ alarm_history[1].state = WARNING
    /\ alarm_history[1].acknowledged
    /\ alarm_history[2].state = NORMAL
    /\ alarm_history[2].previous_state = WARNING
    /\ alarm_history[1].timestamp < alarm_history[2].timestamp
    /\ alarm_history[2].timestamp = now

\* C28: every entry of active_alarms is the single entry of its tag, refers
\* to the most recent event of that tag in alarm_history, and that event's
\* level is the tag's confirmed level.  A confirmed transition of a tag from
\* one level other than NORMAL to another replaces the tag's entry by the new
\* event: the table keeps its length and its other entries.
C28_EntryIsLatestEventOfTag ==
    /\ [](\A i \in 1..Len(active_alarms) :
             LET tag == active_alarms[i].key
                 ref == active_alarms[i].val
             IN  /\ \A j \in 1..Len(active_alarms) :
                        active_alarms[j].key = tag => j = i
                 /\ ref \in EventsOf(tag)
                 /\ \A j \in EventsOf(tag) : j <= ref
                 /\ alarm_history[ref].state = current_states[tag]
                 /\ alarm_history[ref].state # NORMAL)
    /\ [][\A t \in Tags :
             (/\ current_states[t] # NORMAL
              /\ current_states'[t] # NORMAL
              /\ current_states'[t] # current_states[t]) =>
                 /\ Len(active_alarms') = Len(active_alarms)
                 /\ \A i \in 1..Len(active_alarms) :
                        IF active_alarms[i].key = t
                        THEN active_alarms'[i] =
                                 [key |-> t, val |-> Len(alarm_history')]
                        ELSE active_alarms'[i] = active_alarms[i]
         ]_vars

\* engine_temp_1 has gone from WARNING to CRITICAL: its one entry refers to
\* the CRITICAL event, the second event of the history.
C28_Witness ==
    /\ Len(alarm_history) = 2
    /\ alarm_history[1].tag_name = "engine_temp_1"
    /\ alarm_history[1].state = WARNING
    /\ alarm_history[2].tag_name = "engine_temp_1"
    /\ alarm_history[2].state = CRITICAL
    /\ alarm_history[2].previous_state = WARNING
    /\ active_alarms = <<[key |-> "engine_temp_1", val |-> 2]>>
    /\ current_states["engine_temp_1"] = CRITICAL

\* The timer keys of a tag, as line 233 spells them.
KeysOf(tag) == {tag \o "_" \o L : L \in AlarmState}

\* C29: tags are evaluated independently.  No two configured tags share a
\* timer key, and a call of evaluate_tag on a tag changes, of another tag,
\* neither the confirmed level, nor a pending timer (every timer whose key is
\* not one of the evaluated tag's stays as it is), nor the table entry, nor
\* an event of the history; this with tag names that are prefixes of one
\* another and contain '_' and a level name.
C29_TagsIndependent ==
    /\ [](\A t, u \in Tags : t # u => KeysOf(t) \cap KeysOf(u) = {})
    /\ [][\A t \in Tags : Evaluated(t) =>
            /\ \A k \in (DOMAIN alarm_timers \cup DOMAIN alarm_timers') \ KeysOf(t) :
                  /\ k \in DOMAIN alarm_timers
                  /\ k \in DOMAIN alarm_timers'
                  /\ alarm_timers'[k] = alarm_timers[k]
            /\ \A u \in Tags \ {t} :
                  /\ current_states'[u] = current_states[u]
                  /\ DictHas(active_alarms', u) <=> DictHas(active_alarms, u)
                  /\ DictHas(active_alarms, u) =>
                        DictGet(active_alarms', u) = DictGet(active_alarms, u)
                  /\ {i \in 1..Len(alarm_history') : alarm_history'[i].tag_name = u}
                        = EventsOf(u)
                  /\ \A i \in EventsOf(u) : alarm_history'[i] = alarm_history[i]
         ]_vars

\* engine_temp_WARNING has just been confirmed at WARNING while the WARNING
\* candidate of engine_temp, whose timer key is that tag's name, is pending
\* since an earlier time and engine_temp is still NORMAL.
C29_Witness ==
    /\ last.op = "evaluate_tag"
    /\ last.tag_name = "engine_temp_WARNING"
    /\ ret.kind = "event"
    /\ current_states["engine_temp_WARNING"] = WARNING
    /\ current_states["engine_temp"] = NORMAL
    /\ "engine_temp_WARNING" \in DOMAIN alarm_timers
    /\ alarm_timers["engine_temp_WARNING"] < now
    /\ "engine_temp_WARNING_WARNING" \notin DOMAIN alarm_timers

\* The load of a file fails: the file is absent or unreadable, or the
\* conversion of one of its entries raises.
LoadFails(store) ==
    \/ ~store.exists
    \/ ~store.readable
    \/ \E i \in 1..Len(store.entries) :
          LET entry == store.entries[i]
          IN  \/ entry.priority \notin AlarmPriority
              \/ "tag_name" \in entry.fields

\* C30: after construction every configured tag has the confirmed level
\* NORMAL, and active_alarms, alarm_history and alarm_timers are empty.  When
\* the file was loaded the configured tags are the tags of the file; when the
\* file is absent or loading fails the configured tags are exactly the
\* default set, each with its entry in current_states.
C30_ConstructedNormalAndEmpty ==
    last.op = "load_config" =>
        /\ \A t \in Tags : t \in DOMAIN current_states /\ current_states[t] = NORMAL
        /\ active_alarms = <<>>
        /\ alarm_history = <<>>
        /\ alarm_timers = <<>>
        /\ IF LoadFails(last.value)
           THEN /\ Tags = {"engine_temp_1", "engine_temp_2", "hydraulic_pressure",
                           "fuel_pressure", "cabin_temp"}
                /\ \A t \in Tags : alarms_config[t].tag_name = t
           ELSE /\ Tags = {last.value.entries[i].key :
                              i \in 1..Len(last.value.entries)}
                /\ \A t \in Tags : alarms_config[t].tag_name = t

\* The file's first entry was loaded and its second entry, written by
\* save_config, raised: the default set replaced the configuration.
C30_Witness ==
    /\ last.op = "load_config"
    /\ last.value.exists /\ last.value.readable
    /\ Len(last.value.entries) = 2
    /\ last.value.entries[1] = WrittenEntry("pump_temp")
    /\ last.value.entries[2] = SavedEntry("engine_temp_1")
    /\ "pump_temp" \notin Tags
    /\ "engine_temp_1" \in Tags
    /\ current_states["engine_temp_1"] = NORMAL

\* The fields of an event that record its acknowledgment, and the others.
AckFields == {"acknowledged", "ack_timestamp", "ack_user"}
CreatedFields ==
    {"id", "tag_name", "timestamp", "state", "previous_state", "value",
     "message", "priority", "auto_cleared"}

\* C31: once an event is created, its id, tag, timestamp, level, previous
\* level, value, message, priority and auto_cleared flag never change under a
\* later evaluate_tag or acknowledge_alarm: a step changes at most the
\* acknowledgment fields of an event of the history.  The auto_cleared flag
\* of an event is true exactly when the event's level is NORMAL.
C31_EventFieldsImmutable ==
    /\ [](\A i \in 1..Len(alarm_history) :
             /\ DOMAIN alarm_history[i] = CreatedFields \cup AckFields
             /\ alarm_history[i].auto_cleared <=> alarm_history[i].state = NORMAL)
    /\ [][\A i \in 1..Len(alarm_history) :
             /\ i <= Len(alarm_history')
             /\ \A f \in CreatedFields :
                   alarm_history'[i][f] = alarm_history[i][f]
         ]_vars

\* The WARNING event of a tag was stamped by the auto-acknowledgment after
\* its creation, and the NORMAL event that followed is the one flagged
\* auto_cleared.
C31_Witness ==
    /\ Len(alarm_history) = 2
    /\ alarm_history[1].state = WARNING
    /\ ~alarm_history[1].auto_cleared
    /\ alarm_history[1].ack_user = Some("SYSTEM")
    /\ alarm_history[1].ack_timestamp = Some(now)
    /\ alarm_history[1].timestamp < now
    /\ alarm_history[2].state = NORMAL
    /\ alarm_history[2].auto_cleared
    /\ ~alarm_history[2].acknowledged

\* C32: in every reachable state no timer is pending for a tag's own
\* confirmed level.  A timer of a level is created only by an evaluation of
\* the tag that classifies to a level other than the confirmed one and
\* confirms nothing, and the evaluation that makes a level the confirmed one
\* finds that level's timer and deletes it.
C32_NoTimerForConfirmedLevel ==
    /\ [](\A t \in Tags : TimerKey(t, current_states[t]) \notin DOMAIN alarm_timers)
    /\ [][\A t \in Tags :
             /\ \A L \in AlarmState :
                   (/\ TimerKey(t, L) \notin DOMAIN alarm_timers
                    /\ TimerKey(t, L) \in DOMAIN alarm_timers') =>
                       /\ Evaluated(t)
                       /\ L # current_states[t]
                       /\ L = _determine_alarm_state(alarms_config[t], last'.value)
                       /\ current_states'[t] = current_states[t]
             /\ current_states'[t] # current_states[t] =>
                   /\ TimerKey(t, current_states'[t]) \in DOMAIN alarm_timers
                   /\ TimerKey(t, current_states'[t]) \notin DOMAIN alarm_timers'
         ]_vars

\* engine_temp_1 has just been confirmed at CRITICAL: the CRITICAL timer is
\* gone while the timer of the WARNING candidate seen before is still there.
C32_Witness ==
    /\ last.op = "evaluate_tag"
    /\ last.tag_name = "engine_temp_1"
    /\ ret.kind = "event"
    /\ current_states["engine_temp_1"] = CRITICAL
    /\ TimerKey("engine_temp_1", CRITICAL) \notin DOMAIN alarm_timers
    /\ TimerKey("engine_temp_1", WARNING) \in DOMAIN alarm_timers

\* The event of the tag that precedes event i in the history, or 0.
PrecedingOf(i) ==
    LET earlier == {j \in 1..(i - 1) :
                       alarm_history[j].tag_name = alarm_history[i].tag_name}
    IN  IF earlier = {} THEN 0 ELSE CHOOSE j \in earlier : \A k \in earlier : k <= j

\* C33: the events of a tag form a chain.  Every event of the history has a
\* level other than its previous level; the first event of a tag has the
\* previous level NORMAL and every later event of the tag has as previous
\* level the level of the tag's event just before it; the level of a tag's
\* last event is the tag's confirmed level, and a tag without events is
\* NORMAL.
C33_EventChainPerTag ==
    /\ \A i \in 1..Len(alarm_history) :
          /\ alarm_history[i].state # alarm_history[i].previous_state
          /\ alarm_history[i].previous_state =
                IF PrecedingOf(i) = 0
                THEN NORMAL
                ELSE alarm_history[PrecedingOf(i)].state
    /\ \A t \in Tags :
          IF EventsOf(t) = {}
          THEN current_states[t] = NORMAL
          ELSE \E i \in EventsOf(t) :
                  /\ \A j \in EventsOf(t) : j <= i
                  /\ alarm_history[i].state = current_states[t]

\* hydraulic_pressure has gone to WARNING, back to NORMAL and to WARNING
\* again.
C33_Witness ==
    /\ Len(alarm_history) = 3
    /\ \A i \in 1..3 : alarm_history[i].tag_name = "hydraulic_pressure"
    /\ alarm_history[1].previous_state = NORMAL
    /\ alarm_history[1].state = WARNING
    /\ alarm_history[2].state = NORMAL
    /\ alarm_history[3].previous_state = NORMAL
    /\ alarm_history[3].state = WARNING
    /\ current_states["hydraulic_pressure"] = WARNING

\* The acknowledgment of an event, and whether event i is its tag's entry in
\* the table.
AckRecord(event) ==
    [acknowledged |-> event.acknowledged,
     ack_timestamp |-> event.ack_timestamp,
     ack_user |-> event.ack_user]

IsEntry(active, history, i) ==
    \E n \in 1..Len(active) :
        active[n].key = history[i].tag_name /\ active[n].val = i

\* C34: the acknowledgment of an event changes only while the event is its
\* tag's entry in active_alarms: by acknowledge_alarm on the tag, or by the
\* auto-acknowledgment of the evaluation that removes the entry.  An event is
\* created unacknowledged, so an event of level NORMAL is never acknowledged,
\* and an event that is no longer the entry of its tag keeps the
\* acknowledgment it left the table with.
C34_AcknowledgedOnlyWhileActive ==
    /\ [](\A i \in 1..Len(alarm_history) :
             alarm_history[i].state = NORMAL =>
                 AckRecord(alarm_history[i]) =
                     [acknowledged |-> FALSE, ack_timestamp |-> None,
                      ack_user |-> None])
    /\ [][/\ Appended => ~NewEvent.acknowledged
          /\ \A i \in 1..Len(alarm_history) :
                AckRecord(alarm_history'[i]) # AckRecord(alarm_history[i]) =>
                    /\ IsEntry(active_alarms, alarm_history, i)
                    /\ \/ /\ AcknowledgeCalled(alarm_history[i].tag_name)
                          /\ ret' = RetBool(TRUE)
                          /\ alarm_history'[i].ack_user = Some(last'.user)
                       \/ /\ Evaluated(alarm_history[i].tag_name)
                          /\ alarms_config[alarm_history[i].tag_name].auto_acknowledge
                          /\ ~DictHas(active_alarms', alarm_history[i].tag_name)
                          /\ alarm_history'[i].ack_user = Some("SYSTEM")
         ]_vars

\* The WARNING event of engine_temp_1 was replaced unacknowledged by the
\* CRITICAL event; an operator then acknowledged the tag, which stamped the
\* CRITICAL event and left the WARNING event as it was.
C34_Witness ==
    /\ last.op = "acknowledge_alarm"
    /\ last.tag_name = "engine_temp_1"
    /\ ret = RetBool(TRUE)
    /\ Len(alarm_history) = 2
    /\ alarm_history[1].tag_name = "engine_temp_1"
    /\ alarm_history[1].state = WARNING
    /\ ~alarm_history[1].acknowledged
    /\ alarm_history[2].tag_name = "engine_temp_1"
    /\ alarm_history[2].state = CRITICAL
    /\ alarm_history[2].acknowledged
    /\ IsEntry(active_alarms, alarm_history, 2)

\* C35: a confirmed transition of a tag from one level other than NORMAL to
\* another installs the new event as the tag's entry, unacknowledged, also
\* when the replaced entry had been acknowledged; and the replaced event
\* keeps the acknowledgment it had: no auto-acknowledgment is applied to it,
\* also when the tag has auto_acknowledge set.
C35_EscalationEntryUnacknowledged ==
    [][\A t \in Tags :
          (/\ Evaluated(t)
           /\ current_states[t] # NORMAL
           /\ current_states'[t] # NORMAL
           /\ current_states'[t] # current_states[t]) =>
              /\ DictHas(active_alarms, t)
              /\ DictGet(active_alarms', t) = Len(alarm_history')
              /\ DictGet(active_alarms', t) # DictGet(active_alarms, t)
              /\ AckRecord(NewEvent) =
                    [acknowledged |-> FALSE, ack_timestamp |-> None,
                     ack_user |-> None]
              /\ AckRecord(alarm_history'[DictGet(active_alarms, t)]) =
                    AckRecord(alarm_history[DictGet(active_alarms, t)])
      ]_vars

\* oil_temp, with auto_acknowledge set, has just gone from an acknowledged
\* WARNING to CRITICAL, and from an unacknowledged one.
C35_Witness ==
    /\ last.op = "evaluate_tag"
    /\ last.tag_name = "oil_temp"
    /\ ret = RetEvent(2)
    /\ alarms_config["oil_temp"].auto_acknowledge
    /\ alarm_history[1].state = WARNING
    /\ alarm_history[1].ack_user = Some("OPERATOR")
    /\ alarm_history[2].state = CRITICAL
    /\ alarm_history[2].previous_state = WARNING
    /\ ~alarm_history[2].acknowledged
    /\ active_alarms = <<[key |-> "oil_temp", val |-> 2]>>

\* C36: for a tag with auto_acknowledge, the evaluation that confirms the
\* tag's return to NORMAL leaves the tag's previous entry acknowledged by
\* "SYSTEM" at the time of the call, whatever its acknowledgment was: an
\* operator's acknowledgment recorded before, user and timestamp, is
\* overwritten.
C36_AutoAcknowledgeOverwrites ==
    [][\A t \in Tags :
          (/\ Evaluated(t)
           /\ alarms_config[t].auto_acknowledge
           /\ current_states[t] # NORMAL
           /\ current_states'[t] = NORMAL) =>
              /\ DictHas(active_alarms, t)
              /\ AckRecord(alarm_history'[DictGet(active_alarms, t)]) =
                    [acknowledged |-> TRUE, ack_timestamp |-> Some(now),
                     ack_user |-> Some("SYSTEM")]
              /\ last'.was_acknowledged =>
                    /\ alarm_history[DictGet(active_alarms, t)].ack_user \in
                          {Some(u) : u \in Users}
                    /\ alarm_history'[DictGet(active_alarms, t)].ack_user #
                          alarm_history[DictGet(active_alarms, t)].ack_user
      ]_vars

\* oil_temp has returned to NORMAL; its WARNING event, which an operator had
\* acknowledged when the call was made, now carries the stamp of "SYSTEM".
C36_Witness ==
    /\ last.op = "evaluate_tag"
    /\ last.tag_name = "oil_temp"
    /\ last.was_acknowledged
    /\ ret = RetEvent(2)
    /\ alarm_history[2].state = NORMAL
    /\ alarm_history[1].state = WARNING
    /\ alarm_history[1].ack_user = Some("SYSTEM")
    /\ alarm_history[1].ack_timestamp = Some(now)
    /\ active_alarms = <<>>

\* What the observing subscriber has kept of its calls.
Observations ==
    {notified["observing_subscriber"][i] :
        i \in 1..Len(notified["observing_subscriber"])}

\* C37: notification happens after the state update.  Whenever a subscriber
\* is called with an event, the event is the last entry of the history, the
\* tag's confirmed level is the event's level, the event is the tag's entry
\* in the table exactly when its level is not NORMAL, and the counter of
\* events includes it; acknowledge_alarm on the event's tag, called from
\* inside the callback, succeeds exactly when the event's level is not
\* NORMAL.
C37_NotifiedAfterStateUpdate ==
    \A o \in Observations :
        /\ o.history_count = o.event
        /\ o.level = alarm_history[o.event].state
        /\ o.active <=> alarm_history[o.event].state # NORMAL
        /\ o.total_alarms >= o.event
        /\ o.acknowledged <=> alarm_history[o.event].state # NORMAL

\* The events of priority HIGH or URGENT, as indices of alarm_history.
CriticalEvents ==
    {i \in 1..Len(alarm_history) : alarm_history[i].priority \in {HIGH, URGENT}}

=============================================================================
